---- MODULE Spec2Model ----
(***************************************************************************)
(* Admission pipeline of the Aaref salary site (src/src/App.jsx): the      *)
(* rate limiter DeviceFingerprint, the anomaly scorer detectOutliers, the  *)
(* submit handler of SubmitPage, the community flag of SalaryRow /         *)
(* App.handleFlag and the moderator queue of AdminPage.                    *)
(*                                                                         *)
(* Conventions.  Times are milliseconds as read from Date.now().  A record *)
(* carries every field the logic reads; the display-only fields submitted  *)
(* (a date string) and bonus are left out.  An absent optional field       *)
(* (undefined in the source) is the empty string, which is falsy like      *)
(* undefined.  A flag carries type and severity; its detail text is left   *)
(* out.  A nullable React state (null or a value) is a sequence of length  *)
(* 0 or 1.  Text typed in the salary input is a sequence of one-character  *)
(* strings, so that parseInt is computed and not assumed.                  *)
(***************************************************************************)
EXTENDS Integers, Sequences, FiniteSets, TLC

VARIABLES
  salaries,          \* App: useState(INITIAL_SALARIES), newest record first
  submissions,       \* DeviceFingerprint._submissions
  now,               \* the wall clock, Date.now()
  page,              \* App: useState("home")
  submitted,         \* SubmitPage: useState(false)
  comparison,        \* SubmitPage: useState(null)
  validationResult,  \* SubmitPage: useState(null)
  rateError,         \* SubmitPage: useState(null)
  rowFlagged,        \* SalaryRow: useState(false), the ids of the rows where it is true
  filter,            \* AdminPage: useState("all_review")
  actionLog,         \* AdminPage: useState([])
  pc,                \* position inside handleSubmit ("idle" between handlers)
  pending,           \* the locals of a handleSubmit that is under way
  last,              \* history: the handler call that made this state, its input and outcome
  used               \* history: how many calls of each kind were made

vars == <<salaries, submissions, now, page, submitted, comparison, validationResult,
          rateError, rowFlagged, filter, actionLog, pc, pending, last, used>>

----------------------------------------------------------------------------
(* Bounds of the model *)

MaxSubmits == 1
MaxFlags == 1
MaxActions == 2
MaxTicks == 1
MaxFormSubmits == 2
MaxRateSubmits == 6
MaxRateTicks == 4
TickMinutes == 20
MaxLogFlags == 17
MaxLogActions == 22
MaxLiveSubmits == 7
MaxNearSubmits == 4
MaxBatchSubmits == 2

----------------------------------------------------------------------------
(* Data and constants of the program *)

INDUSTRIES == <<"Technology", "Banking & Finance", "Telecom", "FMCG", "Pharma",
                "Healthcare", "Engineering", "Education", "Media", "Other">>

EXPERIENCE_LEVELS == <<"0-1 years", "1-3 years", "3-5 years", "5-8 years",
                       "8-12 years", "12+ years">>

INITIAL_SALARIES ==
  <<
   [id |-> 1, title |-> "Software Engineer", company |-> "Vodafone Egypt", industry |-> "Telecom",
    city |-> "Cairo", experience |-> "3-5 years", salary |-> 25000, verified |-> TRUE,
    trustScore |-> 95, status |-> "auto_approved", flags |-> <<>>, flagCount |-> 0,
    deviceHash |-> "", salaryType |-> "", contractType |-> "",
    recentRaise |-> "", companySize |-> ""],
   [id |-> 2, title |-> "Senior Frontend Developer", company |-> "Instabug", industry |-> "Technology",
    city |-> "Cairo", experience |-> "5-8 years", salary |-> 45000, verified |-> TRUE,
    trustScore |-> 92, status |-> "auto_approved", flags |-> <<>>, flagCount |-> 0,
    deviceHash |-> "", salaryType |-> "", contractType |-> "",
    recentRaise |-> "", companySize |-> ""],
   [id |-> 3, title |-> "Data Analyst", company |-> "CIB", industry |-> "Banking & Finance",
    city |-> "Cairo", experience |-> "1-3 years", salary |-> 15000, verified |-> FALSE,
    trustScore |-> 88, status |-> "auto_approved", flags |-> <<>>, flagCount |-> 0,
    deviceHash |-> "", salaryType |-> "", contractType |-> "",
    recentRaise |-> "", companySize |-> ""],
   [id |-> 4, title |-> "Product Manager", company |-> "Swvl", industry |-> "Technology",
    city |-> "Cairo", experience |-> "5-8 years", salary |-> 55000, verified |-> TRUE,
    trustScore |-> 78, status |-> "auto_approved", flags |-> <<>>, flagCount |-> 0,
    deviceHash |-> "", salaryType |-> "", contractType |-> "",
    recentRaise |-> "", companySize |-> ""],
   [id |-> 5, title |-> "DevOps Engineer", company |-> "Fawry", industry |-> "Technology",
    city |-> "Cairo", experience |-> "3-5 years", salary |-> 30000, verified |-> FALSE,
    trustScore |-> 90, status |-> "auto_approved", flags |-> <<>>, flagCount |-> 0,
    deviceHash |-> "", salaryType |-> "", contractType |-> "",
    recentRaise |-> "", companySize |-> ""],
   [id |-> 6, title |-> "Marketing Manager", company |-> "Nestle Egypt", industry |-> "FMCG",
    city |-> "Giza", experience |-> "5-8 years", salary |-> 35000, verified |-> TRUE,
    trustScore |-> 94, status |-> "auto_approved", flags |-> <<>>, flagCount |-> 0,
    deviceHash |-> "", salaryType |-> "", contractType |-> "",
    recentRaise |-> "", companySize |-> ""],
   [id |-> 7, title |-> "Financial Analyst", company |-> "EFG Hermes", industry |-> "Banking & Finance",
    city |-> "Cairo", experience |-> "3-5 years", salary |-> 28000, verified |-> TRUE,
    trustScore |-> 91, status |-> "auto_approved", flags |-> <<>>, flagCount |-> 0,
    deviceHash |-> "", salaryType |-> "", contractType |-> "",
    recentRaise |-> "", companySize |-> ""],
   [id |-> 8, title |-> "Backend Developer", company |-> "Paymob", industry |-> "Technology",
    city |-> "Cairo", experience |-> "3-5 years", salary |-> 32000, verified |-> FALSE,
    trustScore |-> 87, status |-> "auto_approved", flags |-> <<>>, flagCount |-> 0,
    deviceHash |-> "", salaryType |-> "", contractType |-> "",
    recentRaise |-> "", companySize |-> ""],
   [id |-> 9, title |-> "UX Designer", company |-> "Orange Egypt", industry |-> "Telecom",
    city |-> "Cairo", experience |-> "1-3 years", salary |-> 18000, verified |-> TRUE,
    trustScore |-> 93, status |-> "auto_approved", flags |-> <<>>, flagCount |-> 0,
    deviceHash |-> "", salaryType |-> "", contractType |-> "",
    recentRaise |-> "", companySize |-> ""],
   [id |-> 10, title |-> "Pharmacist", company |-> "Eva Pharma", industry |-> "Pharma",
    city |-> "Cairo", experience |-> "1-3 years", salary |-> 12000, verified |-> FALSE,
    trustScore |-> 85, status |-> "auto_approved", flags |-> <<>>, flagCount |-> 0,
    deviceHash |-> "", salaryType |-> "", contractType |-> "",
    recentRaise |-> "", companySize |-> ""],
   [id |-> 11, title |-> "Network Engineer", company |-> "Etisalat Egypt", industry |-> "Telecom",
    city |-> "Alexandria", experience |-> "5-8 years", salary |-> 28000, verified |-> TRUE,
    trustScore |-> 90, status |-> "auto_approved", flags |-> <<>>, flagCount |-> 0,
    deviceHash |-> "", salaryType |-> "", contractType |-> "",
    recentRaise |-> "", companySize |-> ""],
   [id |-> 12, title |-> "QA Engineer", company |-> "Breadfast", industry |-> "Technology",
    city |-> "Cairo", experience |-> "1-3 years", salary |-> 16000, verified |-> FALSE,
    trustScore |-> 86, status |-> "auto_approved", flags |-> <<>>, flagCount |-> 0,
    deviceHash |-> "", salaryType |-> "", contractType |-> "",
    recentRaise |-> "", companySize |-> ""],
   [id |-> 13, title |-> "iOS Developer", company |-> "Careem", industry |-> "Technology",
    city |-> "Cairo", experience |-> "5-8 years", salary |-> 50000, verified |-> TRUE,
    trustScore |-> 88, status |-> "auto_approved", flags |-> <<>>, flagCount |-> 0,
    deviceHash |-> "", salaryType |-> "", contractType |-> "",
    recentRaise |-> "", companySize |-> ""],
   [id |-> 14, title |-> "HR Manager", company |-> "Telecom Egypt", industry |-> "Telecom",
    city |-> "Cairo", experience |-> "8-12 years", salary |-> 38000, verified |-> TRUE,
    trustScore |-> 91, status |-> "auto_approved", flags |-> <<>>, flagCount |-> 0,
    deviceHash |-> "", salaryType |-> "", contractType |-> "",
    recentRaise |-> "", companySize |-> ""],
   [id |-> 15, title |-> "ML Engineer", company |-> "Valeo Egypt", industry |-> "Technology",
    city |-> "Cairo", experience |-> "3-5 years", salary |-> 40000, verified |-> TRUE,
    trustScore |-> 89, status |-> "auto_approved", flags |-> <<>>, flagCount |-> 0,
    deviceHash |-> "", salaryType |-> "", contractType |-> "",
    recentRaise |-> "", companySize |-> ""],
   [id |-> 16, title |-> "Accountant", company |-> "KPMG Egypt", industry |-> "Banking & Finance",
    city |-> "Cairo", experience |-> "1-3 years", salary |-> 14000, verified |-> FALSE,
    trustScore |-> 84, status |-> "auto_approved", flags |-> <<>>, flagCount |-> 0,
    deviceHash |-> "", salaryType |-> "", contractType |-> "",
    recentRaise |-> "", companySize |-> ""],
   [id |-> 17, title |-> "Sales Executive", company |-> "P&G Egypt", industry |-> "FMCG",
    city |-> "Giza", experience |-> "3-5 years", salary |-> 22000, verified |-> TRUE,
    trustScore |-> 92, status |-> "auto_approved", flags |-> <<>>, flagCount |-> 0,
    deviceHash |-> "", salaryType |-> "", contractType |-> "",
    recentRaise |-> "", companySize |-> ""],
   [id |-> 18, title |-> "Full Stack Developer", company |-> "MoneyFellows", industry |-> "Technology",
    city |-> "Cairo", experience |-> "3-5 years", salary |-> 35000, verified |-> TRUE,
    trustScore |-> 90, status |-> "auto_approved", flags |-> <<>>, flagCount |-> 0,
    deviceHash |-> "", salaryType |-> "", contractType |-> "",
    recentRaise |-> "", companySize |-> ""],
   [id |-> 19, title |-> "Civil Engineer", company |-> "Orascom", industry |-> "Engineering",
    city |-> "Cairo", experience |-> "5-8 years", salary |-> 20000, verified |-> FALSE,
    trustScore |-> 82, status |-> "auto_approved", flags |-> <<>>, flagCount |-> 0,
    deviceHash |-> "", salaryType |-> "", contractType |-> "",
    recentRaise |-> "", companySize |-> ""],
   [id |-> 20, title |-> "Android Developer", company |-> "Halan", industry |-> "Technology",
    city |-> "Cairo", experience |-> "3-5 years", salary |-> 28000, verified |-> TRUE,
    trustScore |-> 91, status |-> "auto_approved", flags |-> <<>>, flagCount |-> 0,
    deviceHash |-> "", salaryType |-> "", contractType |-> "",
    recentRaise |-> "", companySize |-> ""],
   [id |-> 21, title |-> "Junior Intern", company |-> "Unknown Startup", industry |-> "Technology",
    city |-> "Cairo", experience |-> "0-1 years", salary |-> 120000, verified |-> FALSE,
    trustScore |-> 22, status |-> "flagged", flags |-> <<[type |-> "extreme_outlier", severity |-> "high"], [type |-> "high_for_exp", severity |-> "high"]>>, flagCount |-> 0,
    deviceHash |-> "abc12", salaryType |-> "", contractType |-> "",
    recentRaise |-> "", companySize |-> ""],
   [id |-> 22, title |-> "Software Engineer", company |-> "Vodafone Egypt", industry |-> "Telecom",
    city |-> "Cairo", experience |-> "3-5 years", salary |-> 25000, verified |-> FALSE,
    trustScore |-> 35, status |-> "flagged", flags |-> <<[type |-> "duplicate", severity |-> "high"]>>, flagCount |-> 0,
    deviceHash |-> "def34", salaryType |-> "", contractType |-> "",
    recentRaise |-> "", companySize |-> ""],
   [id |-> 23, title |-> "CEO", company |-> "Small Local Shop", industry |-> "Other",
    city |-> "Cairo", experience |-> "12+ years", salary |-> 500000, verified |-> FALSE,
    trustScore |-> 18, status |-> "flagged", flags |-> <<[type |-> "extreme_outlier", severity |-> "high"], [type |-> "high_for_exp", severity |-> "high"]>>, flagCount |-> 2,
    deviceHash |-> "ghi56", salaryType |-> "", contractType |-> "",
    recentRaise |-> "", companySize |-> ""],
   [id |-> 24, title |-> "Data Scientist", company |-> "Fawry", industry |-> "Technology",
    city |-> "Cairo", experience |-> "3-5 years", salary |-> 85000, verified |-> FALSE,
    trustScore |-> 52, status |-> "needs_review", flags |-> <<[type |-> "outlier", severity |-> "medium"]>>, flagCount |-> 0,
    deviceHash |-> "jkl78", salaryType |-> "gross", contractType |-> "permanent",
    recentRaise |-> "yes", companySize |-> ""],
   [id |-> 25, title |-> "Receptionist", company |-> "Hilton Cairo", industry |-> "Other",
    city |-> "Cairo", experience |-> "1-3 years", salary |-> 4000, verified |-> FALSE,
    trustScore |-> 55, status |-> "needs_review", flags |-> <<[type |-> "low_for_exp", severity |-> "medium"]>>, flagCount |-> 0,
    deviceHash |-> "mno90", salaryType |-> "", contractType |-> "",
    recentRaise |-> "", companySize |-> ""]
  >>

LowerCaseTable ==
     "Accountant" :> "accountant"
  @@ "Android Developer" :> "android developer"
  @@ "Backend Developer" :> "backend developer"
  @@ "Breadfast" :> "breadfast"
  @@ "CEO" :> "ceo"
  @@ "CIB" :> "cib"
  @@ "Careem" :> "careem"
  @@ "Civil Engineer" :> "civil engineer"
  @@ "Data Analyst" :> "data analyst"
  @@ "Data Scientist" :> "data scientist"
  @@ "DevOps Engineer" :> "devops engineer"
  @@ "EFG Hermes" :> "efg hermes"
  @@ "Etisalat Egypt" :> "etisalat egypt"
  @@ "Eva Pharma" :> "eva pharma"
  @@ "Fawry" :> "fawry"
  @@ "Financial Analyst" :> "financial analyst"
  @@ "Full Stack Developer" :> "full stack developer"
  @@ "HR Manager" :> "hr manager"
  @@ "Halan" :> "halan"
  @@ "Hilton Cairo" :> "hilton cairo"
  @@ "Instabug" :> "instabug"
  @@ "Junior Intern" :> "junior intern"
  @@ "KPMG Egypt" :> "kpmg egypt"
  @@ "ML Engineer" :> "ml engineer"
  @@ "Marketing Manager" :> "marketing manager"
  @@ "MoneyFellows" :> "moneyfellows"
  @@ "Nestle Egypt" :> "nestle egypt"
  @@ "Network Engineer" :> "network engineer"
  @@ "Orange Egypt" :> "orange egypt"
  @@ "Orascom" :> "orascom"
  @@ "P&G Egypt" :> "p&g egypt"
  @@ "Paymob" :> "paymob"
  @@ "Pharmacist" :> "pharmacist"
  @@ "Product Manager" :> "product manager"
  @@ "QA Engineer" :> "qa engineer"
  @@ "Receptionist" :> "receptionist"
  @@ "Sales Executive" :> "sales executive"
  @@ "Senior Frontend Developer" :> "senior frontend developer"
  @@ "Small Local Shop" :> "small local shop"
  @@ "Software Engineer" :> "software engineer"
  @@ "Swvl" :> "swvl"
  @@ "Telecom Egypt" :> "telecom egypt"
  @@ "UX Designer" :> "ux designer"
  @@ "Unknown Startup" :> "unknown startup"
  @@ "VODAFONE EGYPT" :> "vodafone egypt"
  @@ "Valeo Egypt" :> "valeo egypt"
  @@ "Vodafone Egypt" :> "vodafone egypt"
  @@ "iOS Developer" :> "ios developer"

----------------------------------------------------------------------------
(* Strings *)

\* String.prototype.toLowerCase on the strings of the model: a string of the
\* table has capitals, every other string of the model is already lower case.
toLowerCase(s) == IF s \in DOMAIN LowerCaseTable THEN LowerCaseTable[s] ELSE s

Digits == "0" :> 0 @@ "1" :> 1 @@ "2" :> 2 @@ "3" :> 3 @@ "4" :> 4 @@
          "5" :> 5 @@ "6" :> 6 @@ "7" :> 7 @@ "8" :> 8 @@ "9" :> 9

RECURSIVE LeadingDigits(_)
\* the longest prefix of text made of decimal digits
LeadingDigits(text) ==
  IF text = <<>> \/ Head(text) \notin DOMAIN Digits THEN <<>>
  ELSE <<Head(text)>> \o LeadingDigits(Tail(text))

RECURSIVE DigitsValue(_)
DigitsValue(ds) ==
  IF ds = <<>> THEN 0
  ELSE 10 * DigitsValue(SubSeq(ds, 1, Len(ds) - 1)) + Digits[ds[Len(ds)]]

RECURSIVE TrimStart(_)
TrimStart(text) ==
  IF text # <<>> /\ Head(text) = " " THEN TrimStart(Tail(text)) ELSE text

\* parseInt(text): leading blanks are skipped, an optional sign is read, then
\* the longest run of digits; what follows is ignored; NaN when no digit is read.
parseInt(text) ==
  LET t0   == TrimStart(text)
      neg  == t0 # <<>> /\ Head(t0) = "-"
      t1   == IF t0 # <<>> /\ Head(t0) \in {"-", "+"} THEN Tail(t0) ELSE t0
      ds   == LeadingDigits(t1)
  IN  IF ds = <<>> THEN [nan |-> TRUE, val |-> 0]
      ELSE [nan |-> FALSE, val |-> IF neg THEN 0 - DigitsValue(ds) ELSE DigitsValue(ds)]

----------------------------------------------------------------------------
(* Arithmetic helpers *)

Abs(x) == IF x < 0 THEN 0 - x ELSE x
Max(a, b) == IF a >= b THEN a ELSE b
Min(a, b) == IF a <= b THEN a ELSE b

\* Math.round(p / q) for q > 0: the nearest integer, halves rounded up
Round(p, q) == (2 * p + q) \div (2 * q)

RECURSIVE Gcd(_, _)
Gcd(a, b) == IF b = 0 THEN a ELSE Gcd(b, a % b)

RECURSIVE SumSalary(_)
SumSalary(s) == IF s = <<>> THEN 0 ELSE Head(s).salary + SumSalary(Tail(s))

RECURSIVE GcdSalary(_, _)
GcdSalary(s, g) == IF s = <<>> THEN g ELSE GcdSalary(Tail(s), Gcd(Head(s).salary, g))

RECURSIVE SumScaled(_, _)
SumScaled(s, g) == IF s = <<>> THEN 0 ELSE (Head(s).salary \div g) + SumScaled(Tail(s), g)

RECURSIVE SumSquaresScaled(_, _)
SumSquaresScaled(s, g) ==
  IF s = <<>> THEN 0
  ELSE (Head(s).salary \div g) * (Head(s).salary \div g) + SumSquaresScaled(Tail(s), g)

----------------------------------------------------------------------------
(* LAYER 1: DeviceFingerprint *)

HourMs == 3600000
HardLimit == 5
WarnLimit == 3

\* a window that is never pruned
PruneNothing(subs, t) == subs

\* this._submissions.filter(t => Date.now() - t < 3600000)
Prune(subs, t) == SelectSeq(subs, LAMBDA x : t - x < HourMs)

\* recordSubmission(): push, then prune
recordSubmission(subs, t) == Prune(Append(subs, t), t)

\* getRecentCount() assigns the pruned window to _submissions and returns its length
getRecentCount(subs, t) == Prune(subs, t)

BlocksOneLate(count) == count > HardLimit

\* the hard-block test of checkRateLimit
BlocksAt(count) == count >= HardLimit

\* a limiter that warns one submission late
checkRateLimitWarningLate(count) ==
  IF BlocksAt(count) THEN [blocked |-> TRUE, reason |-> "rate_hard",
                           msg |-> <<"Too many submissions. Try again in an hour.">>]
  ELSE IF count > WarnLimit
       THEN [blocked |-> FALSE, reason |-> "rate_warn",
             msg |-> <<"Multiple submissions detected. Please only submit your own salary.">>]
       ELSE [blocked |-> FALSE, reason |-> "null", msg |-> <<>>]

\* checkRateLimit() on the count that getRecentCount returned
checkRateLimit(count) ==
  IF BlocksAt(count) THEN [blocked |-> TRUE, reason |-> "rate_hard",
                           msg |-> <<"Too many submissions. Try again in an hour.">>]
  ELSE IF count >= WarnLimit
       THEN [blocked |-> FALSE, reason |-> "rate_warn",
             msg |-> <<"Multiple submissions detected. Please only submit your own salary.">>]
       ELSE [blocked |-> FALSE, reason |-> "null", msg |-> <<>>]

\* DeviceFingerprint.generate(): one hash per session, computed once and cached
DeviceHash == "fp"

----------------------------------------------------------------------------
(* LAYER 2: detectOutliers *)

Flag(t, sev) == [type |-> t, severity |-> sev]

\* the z-score on the sample variance, which divides by n - 1:
\* z > c  <=>  (n - 1) * (n*sal - S)^2 > c^2 * n * (n*Q - S*S)
ZScoreClassSampleVariance(sal, group) ==
  LET n == Len(group)
      g == GcdSalary(group, sal)
      S == SumScaled(group, g)
      Q == SumSquaresScaled(group, g)
      X == Abs(n * (sal \div g) - S)
      V == n * Q - S * S
  IN  IF V = 0
      THEN IF X * g > 3 * n THEN "extreme"
           ELSE IF 2 * X * g > 5 * n THEN "outlier" ELSE "none"
      ELSE IF (n - 1) * X * X > 9 * n * V THEN "extreme"
           ELSE IF 4 * (n - 1) * X * X > 25 * n * V THEN "outlier" ELSE "none"

\* The z-score signal against the same-industry records (at least 3 of them).
\* With n records of sum S and sum of squares Q, mean = S/n, variance =
\* (n*Q - S*S)/(n*n) and z = |sal - mean| / stdDev, so for a variance above 0
\* z > c  <=>  (n*sal - S)^2 > c^2 * (n*Q - S*S).  That holds for the
\* salaries divided by a common divisor g as well, which keeps the products
\* small.  A variance of 0 makes Math.sqrt(variance) falsy and stdDev 1, so
\* z = |sal - mean| = |n*sal - S| / n.  The comparisons are exact, where the
\* source rounds to double precision.  Result: "extreme" (z > 3.0),
\* "outlier" (2.5 < z <= 3.0) or "none".
ZScoreClass(sal, group) ==
  LET n == Len(group)
      g == GcdSalary(group, sal)
      S == SumScaled(group, g)
      Q == SumSquaresScaled(group, g)
      X == Abs(n * (sal \div g) - S)
      V == n * Q - S * S
  IN  IF V = 0
      THEN IF X * g > 3 * n THEN "extreme"
           ELSE IF 2 * X * g > 5 * n THEN "outlier" ELSE "none"
      ELSE IF X * X > 9 * V THEN "extreme"
           ELSE IF 4 * X * X > 25 * V THEN "outlier" ELSE "none"

\* the z-score signal from two same-industry records on
ZScoreFlagsFromTwo(entry, existing) ==
  LET sameIndustry == SelectSeq(existing, LAMBDA s : s.industry = entry.industry)
      z == ZScoreClass(entry.salary, sameIndustry)
  IN  IF Len(sameIndustry) >= 2
      THEN IF z = "extreme" THEN [flags |-> <<Flag("extreme_outlier", "high")>>, penalty |-> 40]
           ELSE IF z = "outlier" THEN [flags |-> <<Flag("outlier", "medium")>>, penalty |-> 20]
           ELSE [flags |-> <<>>, penalty |-> 0]
      ELSE [flags |-> <<>>, penalty |-> 0]

ZScoreMinGroup == 3
ZScoreFlags(entry, existing) ==
  LET sameIndustry == SelectSeq(existing, LAMBDA s : s.industry = entry.industry)
      z == ZScoreClass(entry.salary, sameIndustry)
  IN  IF Len(sameIndustry) >= ZScoreMinGroup
      THEN IF z = "extreme" THEN [flags |-> <<Flag("extreme_outlier", "high")>>, penalty |-> 40]
           ELSE IF z = "outlier" THEN [flags |-> <<Flag("outlier", "medium")>>, penalty |-> 20]
           ELSE [flags |-> <<>>, penalty |-> 0]
      ELSE [flags |-> <<>>, penalty |-> 0]

\* expMap[entry.experience] || [0, 999999]
expMap(experience) ==
  CASE experience = "0-1 years"  -> <<5000, 25000>>
    [] experience = "1-3 years"  -> <<8000, 40000>>
    [] experience = "3-5 years"  -> <<12000, 60000>>
    [] experience = "5-8 years"  -> <<15000, 80000>>
    [] experience = "8-12 years" -> <<20000, 100000>>
    [] experience = "12+ years"  -> <<25000, 150000>>
    [] OTHER -> <<0, 999999>>

\* the envelope with its two bounds counted as outside
ExperienceFlagsInclusive(entry) ==
  LET expMin == expMap(entry.experience)[1]
      expMax == expMap(entry.experience)[2]
      low  == 2 * entry.salary <= expMin
      high == 2 * entry.salary >= 3 * expMax
  IN  [flags |-> (IF low THEN <<Flag("low_for_exp", "medium")>> ELSE <<>>) \o
                 (IF high THEN <<Flag("high_for_exp", "high")>> ELSE <<>>),
       penalty |-> (IF low THEN 15 ELSE 0) + (IF high THEN 30 ELSE 0)]

\* sal < expMin * 0.5 and sal > expMax * 1.5, in halves
ExperienceFlags(entry) ==
  LET expMin == expMap(entry.experience)[1]
      expMax == expMap(entry.experience)[2]
      low  == 2 * entry.salary < expMin
      high == 2 * entry.salary > 3 * expMax
  IN  [flags |-> (IF low THEN <<Flag("low_for_exp", "medium")>> ELSE <<>>) \o
                 (IF high THEN <<Flag("high_for_exp", "high")>> ELSE <<>>),
       penalty |-> (IF low THEN 15 ELSE 0) + (IF high THEN 30 ELSE 0)]

\* deviation = |sal - compMean| / compMean > 1.0  <=>  |n*sal - S| > S  (S > 0)
CompanyMinGroup == 2
CompanyFlags(entry, existing) ==
  LET sameCompany == SelectSeq(existing,
                        LAMBDA s : toLowerCase(s.company) = toLowerCase(entry.company))
      n == Len(sameCompany)
      S == SumSalary(sameCompany)
  IN  IF n >= CompanyMinGroup /\ Abs(n * entry.salary - S) > S
      THEN [flags |-> <<Flag("company_mismatch", "high")>>, penalty |-> 25]
      ELSE [flags |-> <<>>, penalty |-> 0]

\* the silent round-number signal
RoundNumberPenalty(sal) ==
  IF sal >= 10000 /\ sal % 10000 = 0 /\ sal > 50000 THEN 5 ELSE 0

isDuplicate(entry, existing) ==
  \E i \in 1..Len(existing) :
     /\ toLowerCase(existing[i].title) = toLowerCase(entry.title)
     /\ toLowerCase(existing[i].company) = toLowerCase(entry.company)
     /\ existing[i].salary = entry.salary

DuplicateFlags(entry, existing) ==
  IF isDuplicate(entry, existing)
  THEN [flags |-> <<Flag("duplicate", "high")>>, penalty |-> 50]
  ELSE [flags |-> <<>>, penalty |-> 0]

Unclamped(score) == score

\* trustScore = Math.max(0, Math.min(100, trustScore))
Clamp(score) == Max(0, Min(100, score))

\* trustScore >= 70 ? "auto_approved" : trustScore >= 40 ? "needs_review" : "flagged"
StatusOf(trustScore) ==
  IF trustScore >= 70 THEN "auto_approved"
  ELSE IF trustScore >= 40 THEN "needs_review" ELSE "flagged"

detectOutliers(entry, existingSalaries) ==
  LET z   == ZScoreFlags(entry, existingSalaries)
      e   == ExperienceFlags(entry)
      c   == CompanyFlags(entry, existingSalaries)
      d   == DuplicateFlags(entry, existingSalaries)
      raw == 100 - z.penalty - e.penalty - c.penalty
                 - RoundNumberPenalty(entry.salary) - d.penalty
      trustScore == Clamp(raw)
  IN  [flags |-> z.flags \o e.flags \o c.flags \o d.flags,
       trustScore |-> trustScore,
       status |-> StatusOf(trustScore)]

----------------------------------------------------------------------------
(* LAYER 3 and the submit handler: SubmitPage.handleSubmit *)

None == <<>>
Some(x) == <<x>>

\* [form.salaryType, form.contractType, form.recentRaise, form.companySize].filter(Boolean).length
optionalFieldsCompleted(form) ==
  Cardinality({i \in 1..4 :
     <<form.salaryType, form.contractType, form.recentRaise, form.companySize>>[i] # ""})

\* the bonus with its two statements made alternatives: 10 for three fields or
\* more, else 5 for two
FrictionBonusNotStacked(analysis, form) ==
  LET n  == optionalFieldsCompleted(form)
      t2 == IF n >= 3 THEN Min(100, analysis.trustScore + 10)
            ELSE IF n >= 2 THEN Min(100, analysis.trustScore + 5)
            ELSE analysis.trustScore
  IN  [flags |-> analysis.flags,
       trustScore |-> t2,
       status |-> IF t2 >= 70 THEN "auto_approved"
                  ELSE IF t2 >= 40 THEN "needs_review" ELSE analysis.status]

\* the bonus without the two status statements that follow it
FrictionBonusStaleStatus(analysis, form) ==
  LET n  == optionalFieldsCompleted(form)
      t1 == IF n >= 3 THEN Min(100, analysis.trustScore + 10) ELSE analysis.trustScore
      t2 == IF n >= 2 THEN Min(100, t1 + 5) ELSE t1
  IN  [flags |-> analysis.flags, trustScore |-> t2, status |-> analysis.status]

\* the two bonus statements and the two status statements that follow them
FrictionBonus(analysis, form) ==
  LET n  == optionalFieldsCompleted(form)
      t1 == IF n >= 3 THEN Min(100, analysis.trustScore + 10) ELSE analysis.trustScore
      t2 == IF n >= 2 THEN Min(100, t1 + 5) ELSE t1
  IN  [flags |-> analysis.flags,
       trustScore |-> t2,
       status |-> IF t2 >= 70 THEN "auto_approved"
                  ELSE IF t2 >= 40 THEN "needs_review" ELSE analysis.status]

ValidationWithoutCompany(form) ==
  /\ form.title # "" /\ form.salary # <<>>
  /\ ~parseInt(form.salary).nan
  /\ parseInt(form.salary).val > 0

\* the two early returns that open handleSubmit
PassesValidation(form) ==
  /\ form.title # "" /\ form.company # "" /\ form.salary # <<>>
  /\ ~parseInt(form.salary).nan
  /\ parseInt(form.salary).val > 0

\* const entry = { ...form, salary: sal }
EntryOf(form) ==
  [title |-> form.title, company |-> form.company, industry |-> form.industry,
   city |-> form.city, experience |-> form.experience,
   salary |-> parseInt(form.salary).val,
   salaryType |-> form.salaryType, contractType |-> form.contractType,
   recentRaise |-> form.recentRaise, companySize |-> form.companySize]

\* const newEntry = { ...form, id: Date.now(), salary: sal, verified: false, ... }
NewEntry(form, analysis, t) ==
  [id |-> t, title |-> form.title, company |-> form.company, industry |-> form.industry,
   city |-> form.city, experience |-> form.experience,
   salary |-> parseInt(form.salary).val, verified |-> FALSE,
   trustScore |-> analysis.trustScore, status |-> analysis.status,
   flags |-> analysis.flags, flagCount |-> 0, deviceHash |-> DeviceHash,
   salaryType |-> form.salaryType, contractType |-> form.contractType,
   recentRaise |-> form.recentRaise, companySize |-> form.companySize]

\* avg, diff, count and percentile of sal against the records of similar
ComparisonOver(sal, similar) ==
  LET n     == Len(similar)
      avg   == IF n # 0 THEN Round(SumSalary(similar), n) ELSE sal
      below == Cardinality({i \in 1..n : similar[i].salary <= sal})
  IN  [avg |-> avg,
       diff |-> Round(100 * (sal - avg), avg),
       count |-> n,
       percentile |-> IF n # 0 THEN Round(100 * below, n) ELSE 50]

\* the comparison data, computed on the salaries the handler was rendered with
Comparison(form, sals) ==
  ComparisonOver(parseInt(form.salary).val,
                 SelectSeq(sals, LAMBDA s : s.industry = form.industry /\ s.status # "flagged"))

\* an append that scores the records of the corpus again, against the grown corpus
PrependRescoring(newEntry, prev) ==
  <<newEntry>> \o
  [i \in 1..Len(prev) |->
     LET again == detectOutliers(prev[i], <<newEntry>> \o prev)
     IN  [prev[i] EXCEPT !.trustScore = again.trustScore, !.status = again.status]]

\* setSalaries(prev => [newEntry, ...prev])
Prepend(newEntry, prev) == <<newEntry>> \o prev

\* the first part with recordSubmission() called ahead of the rate check
SubmitRecordingFirst(form, sals, subs, t) ==
  IF ~PassesValidation(form)
  THEN [outcome |-> "invalid", submissions |-> subs, reason |-> "null",
        rateMsg |-> None, analysis |-> None, calls |-> <<>>]
  ELSE LET window    == getRecentCount(subs, t)
           rateCheck == checkRateLimit(Len(window))
           analysis  == FrictionBonus(detectOutliers(EntryOf(form), sals), form)
       IN  IF rateCheck.blocked
           THEN [outcome |-> "rate_hard", submissions |-> recordSubmission(window, t),
                 reason |-> rateCheck.reason, rateMsg |-> rateCheck.msg, analysis |-> None,
                 calls |-> <<"recordSubmission", "checkRateLimit">>]
           ELSE [outcome |-> "scored", submissions |-> recordSubmission(window, t),
                 reason |-> rateCheck.reason, rateMsg |-> None, analysis |-> Some(analysis),
                 calls |-> <<"recordSubmission", "checkRateLimit", "detectOutliers">>]

\* handleSubmit up to and including DeviceFingerprint.recordSubmission(): what
\* the call does to the window and which locals it holds when it goes on.
\* outcome: "invalid" (an early return of the validation), "rate_hard" (the
\* return of the rate limiter) or "scored".
SubmitFirstPart(form, sals, subs, t) ==
  IF ~PassesValidation(form)
  THEN [outcome |-> "invalid", submissions |-> subs, reason |-> "null",
        rateMsg |-> None, analysis |-> None, calls |-> <<>>]
  ELSE LET window    == getRecentCount(subs, t)
           rateCheck == checkRateLimit(Len(window))
           analysis  == FrictionBonus(detectOutliers(EntryOf(form), sals), form)
       IN  IF rateCheck.blocked
           THEN [outcome |-> "rate_hard", submissions |-> window, reason |-> rateCheck.reason,
                 rateMsg |-> rateCheck.msg, analysis |-> None,
                 calls |-> <<"checkRateLimit">>]
           ELSE [outcome |-> "scored", submissions |-> recordSubmission(window, t),
                 reason |-> rateCheck.reason, rateMsg |-> None, analysis |-> Some(analysis),
                 calls |-> <<"checkRateLimit", "detectOutliers", "recordSubmission">>]

NoForm ==
  [title |-> "", company |-> "", industry |-> "", city |-> "", experience |-> "",
   salary |-> <<>>, salaryType |-> "", contractType |-> "", recentRaise |-> "",
   companySize |-> ""]

NoCall == [op |-> "none", id |-> 0, action |-> "", form |-> NoForm, outcome |-> "",
           reason |-> "null", calls |-> <<>>]

\* the form is on screen unless the result view replaces it
FormShown == ~(submitted /\ comparison # None /\ validationResult # None)

\* One submit event, the handler run from its first to its last statement.
\* The clock has moved on by at least a millisecond since the event before.
Submit(form, limit) ==
  /\ pc = "idle" /\ page = "submit" /\ FormShown
  /\ used.submits < limit
  /\ now' = now + 1
  /\ LET r == SubmitFirstPart(form, salaries, submissions, now')
     IN  /\ submissions' = r.submissions
         /\ rateError' = IF r.outcome = "rate_hard" THEN r.rateMsg ELSE rateError
         /\ IF r.outcome = "scored"
            THEN /\ salaries' = Prepend(NewEntry(form, r.analysis[1], now'), salaries)
                 /\ comparison' = Some(Comparison(form, salaries))
                 /\ validationResult' = r.analysis
                 /\ submitted' = TRUE
            ELSE UNCHANGED <<salaries, comparison, validationResult, submitted>>
         /\ last' = [op |-> "submit", id |-> IF r.outcome = "scored" THEN now' ELSE 0,
                     action |-> "", form |-> form,
                     outcome |-> IF r.outcome = "scored" THEN "admitted" ELSE r.outcome,
                     reason |-> r.reason,
                     calls |-> IF r.outcome = "scored"
                               THEN r.calls \o <<"setSalaries">> ELSE r.calls]
  /\ used' = [used EXCEPT !.submits = @ + 1]
  /\ UNCHANGED <<page, rowFlagged, filter, actionLog, pc, pending>>

\* the "Submit another" button of the result view
SubmitAnother ==
  /\ pc = "idle" /\ page = "submit" /\ ~FormShown
  /\ submitted' = FALSE
  /\ validationResult' = None
  /\ last' = NoCall
  /\ UNCHANGED <<salaries, submissions, now, page, comparison, rateError, rowFlagged,
                 filter, actionLog, pc, pending, used>>

\* The same handler in the order of its statements: first everything up to
\* DeviceFingerprint.recordSubmission() ...
SubmitStart(form, limit) ==
  /\ pc = "idle" /\ page = "submit" /\ FormShown
  /\ used.submits < limit
  /\ now' = now + 1
  /\ LET r == SubmitFirstPart(form, salaries, submissions, now')
     IN  /\ submissions' = r.submissions
         /\ rateError' = IF r.outcome = "rate_hard" THEN r.rateMsg ELSE rateError
         /\ pc' = IF r.outcome = "scored" THEN "recorded" ELSE "idle"
         /\ pending' = IF r.outcome = "scored"
                       THEN Some([form |-> form, analysis |-> r.analysis[1]]) ELSE None
         /\ last' = [op |-> "submit", id |-> 0, action |-> "", form |-> form,
                     outcome |-> r.outcome, reason |-> r.reason, calls |-> r.calls]
  /\ used' = [used EXCEPT !.submits = @ + 1]
  /\ UNCHANGED <<salaries, comparison, validationResult, submitted, page, rowFlagged,
                 filter, actionLog>>

\* ... then newEntry, setSalaries, the comparison and the result view.
SubmitFinish ==
  /\ pc = "recorded"
  /\ LET form == pending[1].form
     IN  /\ salaries' = Prepend(NewEntry(form, pending[1].analysis, now), salaries)
         /\ comparison' = Some(Comparison(form, salaries))
         /\ validationResult' = Some(pending[1].analysis)
         /\ submitted' = TRUE
         /\ last' = [last EXCEPT !.id = now, !.outcome = "admitted",
                                 !.calls = @ \o <<"setSalaries">>]
  /\ pc' = "idle"
  /\ pending' = None
  /\ UNCHANGED <<submissions, now, page, rateError, rowFlagged, filter, actionLog, used>>

\* handleSubmit is a closure of one render of SubmitPage: it reads the form
\* and the salaries prop of that render.  A submit event whose state updates
\* are not rendered yet leaves that closure in place; pending holds what it
\* closes over.
SubmitHeld(form, limit) ==
  /\ pc = "idle" /\ page = "submit" /\ FormShown
  /\ used.submits < limit
  /\ now' = now + 1
  /\ LET r == SubmitFirstPart(form, salaries, submissions, now')
     IN  /\ submissions' = r.submissions
         /\ rateError' = IF r.outcome = "rate_hard" THEN r.rateMsg ELSE rateError
         /\ IF r.outcome = "scored"
            THEN /\ salaries' = Prepend(NewEntry(form, r.analysis[1], now'), salaries)
                 /\ comparison' = Some(Comparison(form, salaries))
                 /\ validationResult' = r.analysis
                 /\ submitted' = TRUE
                 /\ pc' = "held"
                 /\ pending' = Some([form |-> form, analysis |-> r.analysis[1],
                                     salaries |-> salaries])
            ELSE UNCHANGED <<salaries, comparison, validationResult, submitted, pc, pending>>
         /\ last' = [op |-> "submit", id |-> IF r.outcome = "scored" THEN now' ELSE 0,
                     action |-> "", form |-> form,
                     outcome |-> IF r.outcome = "scored" THEN "admitted" ELSE r.outcome,
                     reason |-> r.reason,
                     calls |-> IF r.outcome = "scored"
                               THEN r.calls \o <<"setSalaries">> ELSE r.calls]
  /\ used' = [used EXCEPT !.submits = @ + 1]
  /\ UNCHANGED <<page, rowFlagged, filter, actionLog>>

\* The same closure run once more before the render: Date.now() reads the
\* same millisecond or the next, DeviceFingerprint is shared and up to date,
\* detectOutliers and the comparison read the salaries of the closure, and
\* setSalaries(prev => ...) prepends to the corpus as it is now.
SubmitAgain(limit) ==
  /\ pc = "held"
  /\ used.submits < limit
  /\ now' \in {now, now + 1}
  /\ LET form == pending[1].form
         r    == SubmitFirstPart(form, pending[1].salaries, submissions, now')
     IN  /\ submissions' = r.submissions
         /\ rateError' = IF r.outcome = "rate_hard" THEN r.rateMsg ELSE rateError
         /\ IF r.outcome = "scored"
            THEN /\ salaries' = Prepend(NewEntry(form, r.analysis[1], now'), salaries)
                 /\ comparison' = Some(Comparison(form, pending[1].salaries))
                 /\ validationResult' = r.analysis
                 /\ submitted' = TRUE
            ELSE UNCHANGED <<salaries, comparison, validationResult, submitted>>
         /\ last' = [op |-> "submit", id |-> IF r.outcome = "scored" THEN now' ELSE 0,
                     action |-> "", form |-> form,
                     outcome |-> IF r.outcome = "scored" THEN "admitted" ELSE r.outcome,
                     reason |-> r.reason,
                     calls |-> IF r.outcome = "scored"
                               THEN r.calls \o <<"setSalaries">> ELSE r.calls]
  /\ used' = [used EXCEPT !.submits = @ + 1]
  /\ pc' = "idle"
  /\ pending' = None
  /\ UNCHANGED <<page, rowFlagged, filter, actionLog>>

\* the render that follows a submit event: the result view, a new closure
Rerender ==
  /\ pc = "held"
  /\ pc' = "idle"
  /\ pending' = None
  /\ UNCHANGED <<salaries, submissions, now, page, submitted, comparison, validationResult,
                 rateError, rowFlagged, filter, actionLog, last, used>>

----------------------------------------------------------------------------
(* LAYER 4: the community flag, SalaryRow and App.handleFlag *)

\* ExplorePage: const approved = salaries.filter(s => s.status !== "flagged"),
\* the rows listed when no search and no filter narrows the list
ExploreRows(sals) == SelectSeq(sals, LAMBDA s : s.status # "flagged")

\* HomePage: approved.slice(0, 8), the recent list
HomeRows(sals) ==
  LET approved == SelectSeq(sals, LAMBDA s : s.status # "flagged")
  IN  SubSeq(approved, 1, Min(Len(approved), 8))

\* ComparePage: const approved = salaries.filter(s => s.status !== "flagged"),
\* the records a visitor's salary is compared with
CompareRows(sals) == SelectSeq(sals, LAMBDA s : s.status # "flagged")

\* SubmitPage: the entries shown next to the company field.  The typed text
\* is a whole company name of the corpus, in any letter case; no company name
\* of the model is part of another, so includes() holds for the records of
\* that company alone.  Every such text is longer than 2 characters.
NearbyRows(company, sals) ==
  IF company # ""
  THEN LET nearby == SelectSeq(sals, LAMBDA s : /\ toLowerCase(s.company) = toLowerCase(company)
                                                /\ s.status # "flagged")
       IN  SubSeq(nearby, 1, Min(Len(nearby), 4))
  ELSE <<>>

AlwaysFlaggable(s) == TRUE

\* const isFlaggable = s.status === "auto_approved" || !s.status
isFlaggable(s) == s.status = "auto_approved" \/ s.status = ""

\* a flag that also sends the record back to review
handleFlagDemoting(prev, id) ==
  [i \in 1..Len(prev) |->
     IF prev[i].id = id
     THEN [prev[i] EXCEPT !.flagCount = @ + 1, !.status = "needs_review"]
     ELSE prev[i]]

\* prev.map(s => s.id === id ? { ...s, flagCount: (s.flagCount || 0) + 1 } : s)
handleFlag(prev, id) ==
  [i \in 1..Len(prev) |->
     IF prev[i].id = id THEN [prev[i] EXCEPT !.flagCount = @ + 1] ELSE prev[i]]

\* A visitor goes for the flag button of the listed row of record id.  The
\* button is rendered for a flaggable row only, and its onClick does nothing
\* once the row's own flagged state is set.
FlagRowUpTo(id, limit) ==
  /\ pc = "idle" /\ page = "explore"
  /\ used.flags < limit
  /\ \E i \in 1..Len(ExploreRows(salaries)) :
        /\ ExploreRows(salaries)[i].id = id
        /\ IF isFlaggable(ExploreRows(salaries)[i]) /\ id \notin rowFlagged
           THEN /\ rowFlagged' = rowFlagged \cup {id}
                /\ salaries' = handleFlag(salaries, id)
                /\ last' = [NoCall EXCEPT !.op = "flag", !.id = id, !.outcome = "flagged",
                                          !.calls = <<"handleFlag">>]
           ELSE /\ UNCHANGED <<rowFlagged, salaries>>
                /\ last' = [NoCall EXCEPT !.op = "flag", !.id = id, !.outcome = "refused"]
  /\ used' = [used EXCEPT !.flags = @ + 1]
  /\ UNCHANGED <<submissions, now, page, submitted, comparison, validationResult,
                 rateError, filter, actionLog, pc, pending>>

FlagRow(id) == FlagRowUpTo(id, MaxFlags)

----------------------------------------------------------------------------
(* LAYER 5: the moderator queue, AdminPage *)

FILTERS == {"all_review", "flagged", "needs_review", "community"}

flagged(sals) == SelectSeq(sals, LAMBDA s : s.status = "flagged")
needsReview(sals) == SelectSeq(sals, LAMBDA s : s.status = "needs_review")
communityFlagged(sals) ==
  SelectSeq(sals, LAMBDA s : s.flagCount > 0 /\ s.status = "auto_approved")

queue(f, sals) ==
  IF f = "flagged" THEN flagged(sals)
  ELSE IF f = "needs_review" THEN needsReview(sals)
  ELSE IF f = "community" THEN communityFlagged(sals)
  ELSE flagged(sals) \o needsReview(sals) \o communityFlagged(sals)

ButtonsForApprovedToo(s) ==
  (IF s.status # "rejected" THEN {"approve", "reject"} ELSE {}) \cup
  (IF s.status = "auto_approved" /\ s.flagCount > 0 THEN {"reject"} ELSE {})

\* the buttons rendered under a row of the queue
ActionButtons(s) ==
  (IF s.status # "rejected" /\ s.status # "auto_approved"
   THEN {"approve", "reject"} ELSE {}) \cup
  (IF s.status = "auto_approved" /\ s.flagCount > 0 THEN {"reject"} ELSE {})

\* an approve that leaves the trust score where it was
ModeratedKeepingScore(s, action) ==
  IF action = "approve"
  THEN [s EXCEPT !.status = "auto_approved", !.verified = TRUE]
  ELSE IF action = "reject" THEN [s EXCEPT !.status = "rejected"]
  ELSE s

\* a reject that takes the verified mark back
ModeratedRejectUnverifying(s, action) ==
  IF action = "approve"
  THEN [s EXCEPT !.status = "auto_approved", !.verified = TRUE,
                 !.trustScore = Max(s.trustScore, 80)]
  ELSE IF action = "reject" THEN [s EXCEPT !.status = "rejected", !.verified = FALSE]
  ELSE s

ModeratedUnverified(s, action) ==
  IF action = "approve"
  THEN [s EXCEPT !.status = "auto_approved", !.trustScore = Max(s.trustScore, 80)]
  ELSE IF action = "reject" THEN [s EXCEPT !.status = "rejected"]
  ELSE s

\* what handleAction's map does to the record it addresses
Moderated(s, action) ==
  IF action = "approve"
  THEN [s EXCEPT !.status = "auto_approved", !.verified = TRUE,
                 !.trustScore = Max(s.trustScore, 80)]
  ELSE IF action = "reject" THEN [s EXCEPT !.status = "rejected"]
  ELSE s

AddressedAlways(s, id) == TRUE

\* the test that picks the record handleAction addresses
Addressed(s, id) == s.id = id

LogLimit == 19

\* new Date().toLocaleTimeString(): the wall clock to the second
TimeString(t) == t \div 1000

\* a log cut to 20 earlier entries instead of 19
handleActionLogKeepingTwenty(prev, id, action, t) ==
  <<[id |-> id, action |-> action, time |-> TimeString(t)]>>
     \o SubSeq(prev, 1, Min(Len(prev), LogLimit + 1))

\* a reject that takes the record out of the corpus
handleActionDeleting(prev, id, action) ==
  IF action = "reject"
  THEN SelectSeq(prev, LAMBDA s : ~Addressed(s, id))
  ELSE [i \in 1..Len(prev) |->
          IF Addressed(prev[i], id) THEN Moderated(prev[i], action) ELSE prev[i]]

\* handleAction(id, action): the corpus and the action log after the call
handleActionSalaries(prev, id, action) ==
  [i \in 1..Len(prev) |->
     IF Addressed(prev[i], id) THEN Moderated(prev[i], action) ELSE prev[i]]

handleActionLog(prev, id, action, t) ==
  <<[id |-> id, action |-> action, time |-> TimeString(t)]>>
     \o SubSeq(prev, 1, Min(Len(prev), LogLimit))

\* A moderator presses a button of a row of the queue.
ModeratorClickUpTo(id, action, limit) ==
  /\ pc = "idle" /\ page = "admin"
  /\ used.actions < limit
  /\ \E i \in 1..Len(queue(filter, salaries)) :
        /\ queue(filter, salaries)[i].id = id
        /\ action \in ActionButtons(queue(filter, salaries)[i])
  /\ salaries' = handleActionSalaries(salaries, id, action)
  /\ actionLog' = handleActionLog(actionLog, id, action, now)
  /\ last' = [NoCall EXCEPT !.op = "moderate", !.id = id, !.action = action,
                            !.outcome = "applied", !.calls = <<"handleAction">>]
  /\ used' = [used EXCEPT !.actions = @ + 1]
  /\ UNCHANGED <<submissions, now, page, submitted, comparison, validationResult,
                 rateError, rowFlagged, filter, pc, pending>>

ModeratorClick(id, action) == ModeratorClickUpTo(id, action, MaxActions)

\* handleAction called with any id and action, whatever the buttons on screen
CallHandleAction(id, action) ==
  /\ pc = "idle" /\ page = "admin"
  /\ used.actions < MaxActions
  /\ salaries' = handleActionSalaries(salaries, id, action)
  /\ actionLog' = handleActionLog(actionLog, id, action, now)
  /\ last' = [NoCall EXCEPT !.op = "handleAction", !.id = id, !.action = action,
                            !.outcome = "applied", !.calls = <<"handleAction">>]
  /\ used' = [used EXCEPT !.actions = @ + 1]
  /\ UNCHANGED <<submissions, now, page, submitted, comparison, validationResult,
                 rateError, rowFlagged, filter, pc, pending>>

\* a tab of the queue: setFilter(t.id)
SetFilter(f) ==
  /\ pc = "idle" /\ page = "admin" /\ f # filter
  /\ filter' = f
  /\ last' = NoCall
  /\ UNCHANGED <<salaries, submissions, now, page, submitted, comparison, validationResult,
                 rateError, rowFlagged, actionLog, pc, pending, used>>

----------------------------------------------------------------------------
(* App: navigation, and the clock *)

PAGES == {"home", "explore", "submit", "compare", "admin", "about"}

\* the pages the model visits: "home" stands for the three pages without a handler
NavPages == {"home", "explore", "submit", "admin"}

\* setPage(p): the page left is unmounted, and its component state is the
\* useState initial value when it is mounted again
Navigate(p) ==
  /\ pc = "idle" /\ p # page
  /\ page' = p
  /\ IF page = "submit"
     THEN /\ submitted' = FALSE /\ comparison' = None
          /\ validationResult' = None /\ rateError' = None
     ELSE UNCHANGED <<submitted, comparison, validationResult, rateError>>
  /\ rowFlagged' = IF page = "explore" THEN {} ELSE rowFlagged
  /\ IF page = "admin"
     THEN filter' = "all_review" /\ actionLog' = <<>>
     ELSE UNCHANGED <<filter, actionLog>>
  /\ last' = NoCall
  /\ UNCHANGED <<salaries, submissions, now, pc, pending, used>>

TickMs == TickMinutes * 60000

Tick(limit) ==
  /\ pc = "idle"
  /\ used.ticks < limit
  /\ now' = now + TickMs
  /\ used' = [used EXCEPT !.ticks = @ + 1]
  /\ last' = NoCall
  /\ UNCHANGED <<salaries, submissions, page, submitted, comparison, validationResult,
                 rateError, rowFlagged, filter, actionLog, pc, pending>>

\* The clock as long as a reading of it matters to the limiter: it advances
\* while a timestamp of the window is younger than an hour.
ClockAdvances ==
  /\ pc = "idle"
  /\ \E i \in 1..Len(submissions) : now - submissions[i] < HourMs
  /\ now' = now + TickMs
  /\ used' = [used EXCEPT !.ticks = @ + 1]
  /\ last' = NoCall
  /\ UNCHANGED <<salaries, submissions, page, submitted, comparison, validationResult,
                 rateError, rowFlagged, filter, actionLog, pc, pending>>

----------------------------------------------------------------------------
(* The inputs of the model *)

\* a clean Technology entry: no signal fires
GoodForm ==
  [title |-> "qa engineer", company |-> "Fawry", industry |-> "Technology",
   city |-> "Cairo", experience |-> "3-5 years", salary |-> <<"3", "0", "0", "0", "0">>,
   salaryType |-> "", contractType |-> "", recentRaise |-> "", companySize |-> ""]

\* record 1 again, in another letter case, with three optional fields filled
DupForm ==
  [title |-> "software engineer", company |-> "VODAFONE EGYPT", industry |-> "Telecom",
   city |-> "Cairo", experience |-> "3-5 years", salary |-> <<"2", "5", "0", "0", "0">>,
   salaryType |-> "net", contractType |-> "permanent", recentRaise |-> "no",
   companySize |-> ""]

\* record 21 again: outlier, high for the experience, round number and duplicate
BadForm ==
  [title |-> "Junior Intern", company |-> "Unknown Startup", industry |-> "Technology",
   city |-> "Cairo", experience |-> "0-1 years",
   salary |-> <<"1", "2", "0", "0", "0", "0">>,
   salaryType |-> "", contractType |-> "", recentRaise |-> "", companySize |-> ""]

\* an industry without records: high for the experience and a round number,
\* which detectOutliers scores 65; two optional fields filled
HighForm ==
  [title |-> "editor", company |-> "Al Ahram", industry |-> "Media",
   city |-> "Cairo", experience |-> "0-1 years", salary |-> <<"6", "0", "0", "0", "0">>,
   salaryType |-> "net", contractType |-> "permanent", recentRaise |-> "",
   companySize |-> ""]

\* record 25 again, low for the experience chosen, which detectOutliers scores
\* 35; two optional fields filled
LowDupForm ==
  [title |-> "Receptionist", company |-> "Hilton Cairo", industry |-> "Media",
   city |-> "Cairo", experience |-> "3-5 years", salary |-> <<"4", "0", "0", "0">>,
   salaryType |-> "net", contractType |-> "permanent", recentRaise |-> "",
   companySize |-> ""]

\* the same two forms with one optional field filled, which earns no bonus
ThresholdForms ==
  {HighForm, LowDupForm,
   [HighForm EXCEPT !.contractType = ""], [LowDupForm EXCEPT !.contractType = ""]}

ValidForms == {GoodForm, DupForm, BadForm} \cup ThresholdForms

InvalidForms ==
  {[GoodForm EXCEPT !.title = ""],
   [GoodForm EXCEPT !.company = ""],
   [GoodForm EXCEPT !.salary = <<>>],
   [GoodForm EXCEPT !.salary = <<"0">>],
   [GoodForm EXCEPT !.salary = <<"-", "5">>],
   [GoodForm EXCEPT !.salary = <<".", "5">>]}

Forms == ValidForms \cup InvalidForms

\* the forms of the specification that also flags and moderates
MainForms == {GoodForm, BadForm, [GoodForm EXCEPT !.salary = <<"0">>]}

RateForms == {GoodForm, [GoodForm EXCEPT !.salary = <<"0">>]}

\* the seeded records the modelled visitor and moderator go for: an approved
\* one, a flagged one and one that needs review; admitted records are added
SeedTargets == {1, 21, 24}
SeedIds == {INITIAL_SALARIES[i].id : i \in 1..Len(INITIAL_SALARIES)}
Targets == SeedTargets \cup ({salaries[i].id : i \in 1..Len(salaries)} \ SeedIds)

\* the digits a visitor types for the number n
DigitKeys == <<"0", "1", "2", "3", "4", "5", "6", "7", "8", "9">>
RECURSIVE Text(_)
Text(n) ==
  IF n < 10 THEN <<DigitKeys[n + 1]>> ELSE Text(n \div 10) \o <<DigitKeys[(n % 10) + 1]>>

\* salaries in whole thousands, among them the bounds of the experience
\* envelopes that are whole thousands
ThousandSalaries ==
  {4000, 5000, 6000, 10000, 25000, 36000, 45000, 60000, 90000, 100000, 120000, 150000,
   500000}

\* half the lower end and one and a half times the upper end of each
\* experience band, with the salary just below and just above each
EnvelopeBounds ==
  {2500, 4000, 6000, 7500, 10000, 12500, 37500, 60000, 90000, 120000, 150000, 225000}
EnvelopeSalaries == {b + d : b \in EnvelopeBounds, d \in {-1, 0, 1}}

\* every choice of the four optional selects
OptionalChoices ==
  [salaryType : {"", "net"}, contractType : {"", "permanent"},
   recentRaise : {"", "no"}, companySize : {"", "50-200"}]

Elements(list) == {list[i] : i \in 1..Len(list)}

\* the industries whose seeded records are fewer than three
SmallIndustries ==
  {ind \in Elements(INDUSTRIES) :
     Cardinality({i \in 1..Len(INITIAL_SALARIES) : INITIAL_SALARIES[i].industry = ind}) < 3}

ScoreForm(industry, experience, sal, opt) ==
  [title |-> "qa engineer", company |-> "Fawry", industry |-> industry,
   city |-> "Cairo", experience |-> experience, salary |-> Text(sal),
   salaryType |-> opt.salaryType, contractType |-> opt.contractType,
   recentRaise |-> opt.recentRaise, companySize |-> opt.companySize]

\* the forms the scoring is applied to: the salaries in thousands in every
\* industry, the salaries around the envelope bounds in one small industry
ScoreForms ==
  {ScoreForm(ind, ex, sal, opt) :
     ind \in Elements(INDUSTRIES), ex \in Elements(EXPERIENCE_LEVELS),
     sal \in ThousandSalaries,
     opt \in OptionalChoices}
  \cup
  {ScoreForm("Media", ex, sal, opt) :
     ex \in Elements(EXPERIENCE_LEVELS), sal \in EnvelopeSalaries,
     opt \in {o \in OptionalChoices : o.recentRaise = "" /\ o.companySize = ""}}

\* salaries a unit or two apart in an industry without seeded records
NearSalaries == {1000, 1001, 1002}
NearForms ==
  {[title |-> "teacher", company |-> "Cairo University", industry |-> "Education",
    city |-> "Cairo", experience |-> "0-1 years", salary |-> Text(sal),
    salaryType |-> "", contractType |-> "", recentRaise |-> "", companySize |-> ""] :
     sal \in NearSalaries}

----------------------------------------------------------------------------
(* Specifications *)

Init ==
  /\ salaries = INITIAL_SALARIES
  /\ submissions = <<>>
  /\ now = HourMs          \* any reading of the clock above the seeded ids
  /\ page = "home"
  /\ submitted = FALSE
  /\ comparison = None
  /\ validationResult = None
  /\ rateError = None
  /\ rowFlagged = {}
  /\ filter = "all_review"
  /\ actionLog = <<>>
  /\ pc = "idle"
  /\ pending = None
  /\ last = NoCall
  /\ used = [submits |-> 0, flags |-> 0, actions |-> 0, ticks |-> 0]

\* the site as its visitors and moderators drive it
Next ==
  \/ \E form \in MainForms : Submit(form, MaxSubmits)
  \/ SubmitAnother
  \/ \E id \in Targets : FlagRow(id)
  \/ \E id \in Targets : \E action \in {"approve", "reject"} : ModeratorClick(id, action)
  \/ \E f \in FILTERS : SetFilter(f)
  \/ \E p \in NavPages : Navigate(p)

Spec == Init /\ [][Next]_vars

\* the submit page alone, with every form of the model
NextSubmit ==
  \/ \E form \in Forms : Submit(form, MaxFormSubmits)
  \/ SubmitAnother
  \/ \E p \in {"home", "submit"} : Navigate(p)
  \/ Tick(MaxTicks)

SpecSubmit == Init /\ [][NextSubmit]_vars

\* one device submitting again and again while the clock runs
NextRate ==
  \/ \E form \in RateForms : Submit(form, MaxRateSubmits)
  \/ SubmitAnother
  \/ \E p \in {"home", "submit"} : Navigate(p)
  \/ Tick(MaxRateTicks)

SpecRate == Init /\ [][NextRate]_vars

\* handleSubmit statement by statement
NextSteps ==
  \/ \E form \in Forms : SubmitStart(form, MaxFormSubmits)
  \/ SubmitFinish
  \/ SubmitAnother
  \/ \E p \in {"home", "submit"} : Navigate(p)
  \/ Tick(MaxTicks)

SpecSteps == Init /\ [][NextSteps]_vars

\* handleAction as a function anyone may call: any id, listed or not, in the
\* corpus or not, and any action
NextHandlers ==
  \/ \E id \in Targets : FlagRow(id)
  \/ \E p \in NavPages : Navigate(p)
  \/ \E id \in Targets \cup {0} : \E action \in {"approve", "reject"} :
        CallHandleAction(id, action)

SpecHandlers == Init /\ [][NextHandlers]_vars

\* A long moderation session: a visitor flags the listed rows from the top of
\* the Explorer, then the moderator works the queue from its top row, with
\* either button of that row.  The pages are visited in that order once.
FirstUnflagged ==
  LET rows == ExploreRows(salaries)
      open == {i \in 1..Len(rows) : isFlaggable(rows[i]) /\ rows[i].id \notin rowFlagged}
  IN  IF open = {} THEN {}
      ELSE {rows[CHOOSE i \in open : \A j \in open : i <= j].id}

QueueTop ==
  IF queue(filter, salaries) = <<>> THEN {} ELSE {queue(filter, salaries)[1].id}

SessionPages ==
  IF page = "home" THEN {"explore"} ELSE IF page = "explore" THEN {"admin"} ELSE {}

NextLog ==
  \/ \E id \in FirstUnflagged : FlagRowUpTo(id, MaxLogFlags)
  \/ \E id \in QueueTop : \E action \in {"approve", "reject"} :
        ModeratorClickUpTo(id, action, MaxLogActions)
  \/ \E p \in SessionPages : Navigate(p)

SpecLog == Init /\ [][NextLog]_vars

\* one device that stays on the submit page and submits a valid form again and
\* again, under a clock that keeps advancing
NextLive ==
  \/ Submit(GoodForm, MaxLiveSubmits)
  \/ SubmitAnother
  \/ Navigate("submit")
  \/ ClockAdvances

SpecLive == Init /\ [][NextLive]_vars /\ WF_vars(ClockAdvances)

\* The scoring of handleSubmit as a function of the form, over the seeded
\* corpus: detectOutliers, then the bonus for the optional fields.
\* let trustScore = 100; const flags = []
NoAnalysis == [flags |-> <<>>, trustScore |-> 100, status |-> ""]

InitScore ==
  /\ salaries = INITIAL_SALARIES
  /\ submissions = <<>>
  /\ now = HourMs
  /\ page = "submit"
  /\ submitted = FALSE
  /\ comparison = None
  /\ validationResult = None
  /\ rateError = None
  /\ rowFlagged = {}
  /\ filter = "all_review"
  /\ actionLog = <<>>
  /\ pc = "form"
  /\ \E form \in ScoreForms : pending = Some([form |-> form, analysis |-> NoAnalysis])
  /\ last = NoCall
  /\ used = [submits |-> 0, flags |-> 0, actions |-> 0, ticks |-> 0]

\* const analysis = detectOutliers(entry, salaries)
Detect ==
  /\ pc = "form"
  /\ pending' = Some([pending[1] EXCEPT
                        !.analysis = detectOutliers(EntryOf(pending[1].form), salaries)])
  /\ pc' = "detected"
  /\ UNCHANGED <<salaries, submissions, now, page, submitted, comparison, validationResult,
                 rateError, rowFlagged, filter, actionLog, last, used>>

\* the statements on optionalFieldsCompleted, then setValidationResult(analysis)
Bonus ==
  /\ pc = "detected"
  /\ validationResult' = Some(FrictionBonus(pending[1].analysis, pending[1].form))
  /\ pc' = "scored"
  /\ UNCHANGED <<salaries, submissions, now, page, submitted, comparison, rateError,
                 rowFlagged, filter, actionLog, pending, last, used>>

NextScore == Detect \/ Bonus

SpecScore == InitScore /\ [][NextScore]_vars

\* one device that submits a few salaries close to each other in an industry
\* the corpus holds no record of
NextNear ==
  \/ \E form \in NearForms : Submit(form, MaxNearSubmits)
  \/ SubmitAnother
  \/ Navigate("submit")

SpecNear == Init /\ [][NextNear]_vars

\* the site with a submit handler that may run twice on one render
NextBatch ==
  \/ \E form \in MainForms : SubmitHeld(form, MaxBatchSubmits)
  \/ SubmitAgain(MaxBatchSubmits)
  \/ Rerender
  \/ SubmitAnother
  \/ \E id \in Targets : FlagRow(id)
  \/ \E id \in Targets : \E action \in {"approve", "reject"} : ModeratorClick(id, action)
  \/ \E f \in FILTERS : SetFilter(f)
  \/ \E p \in NavPages : Navigate(p)

SpecBatch == Init /\ [][NextBatch]_vars

----------------------------------------------------------------------------
(* Properties *)

\* the k-th oldest record: admission prepends, so k names the same record in
\* the state before and the state after a step
FromEnd(s, k) == s[Len(s) - k + 1]

Admitted(sals) == {i \in 1..Len(sals) : sals[i].id \notin SeedIds}

RecordOf(sals, id) == CHOOSE i \in 1..Len(sals) : sals[i].id = id
HasRecord(sals, id) == \E i \in 1..Len(sals) : sals[i].id = id

SubmitStep == used'.submits = used.submits + 1
FlagStep == used'.flags = used.flags + 1
ModeratorStep == used'.actions = used.actions + 1

\* C1: a record that is rejected is still rejected after every step, whether
\* the step is a submission, a community flag or a moderator action.
C1_RejectedIsTerminal ==
  [][\A k \in 1..Len(salaries) :
        FromEnd(salaries, k).status = "rejected"
          => FromEnd(salaries', k).status = "rejected"]_vars

\* C1 witness: a record is rejected and a moderator action on another record
\* has been applied after its rejection.
C1_Witness ==
  /\ last.op = "moderate"
  /\ \E i \in 1..Len(salaries) :
        salaries[i].status = "rejected" /\ salaries[i].id # last.id

\* C2: a status changes only flagged -> auto_approved, needs_review ->
\* auto_approved, flagged -> rejected, needs_review -> rejected, or
\* auto_approved -> rejected with flagCount >= 1; a moderator action on an
\* auto_approved record is never an approve and never meets flagCount 0.
C2_StatusTransitions ==
  [][\A k \in 1..Len(salaries) :
        LET a == FromEnd(salaries, k)
            b == FromEnd(salaries', k)
        IN  /\ a.status # b.status =>
                 \/ <<a.status, b.status>> \in
                       {<<"flagged", "auto_approved">>, <<"needs_review", "auto_approved">>,
                        <<"flagged", "rejected">>, <<"needs_review", "rejected">>}
                 \/ /\ a.status = "auto_approved" /\ b.status = "rejected"
                    /\ a.flagCount >= 1
            /\ (ModeratorStep /\ a.id = last'.id /\ a.status = "auto_approved") =>
                 (last'.action # "approve" /\ a.flagCount >= 1)]_vars

\* C2 witness: a moderator has removed an auto_approved record that carried a
\* community flag.
C2_Witness ==
  /\ last.op = "moderate" /\ last.action = "reject"
  /\ HasRecord(salaries, last.id)
  /\ salaries[RecordOf(salaries, last.id)].status = "rejected"
  /\ salaries[RecordOf(salaries, last.id)].flagCount >= 1

\* C3: every record of the corpus has a trustScore between 0 and 100.
C3_TrustScoreInRange ==
  \A i \in 1..Len(salaries) : salaries[i].trustScore \in 0..100

\* C3 witness: a submission whose penalties add up to more than 100 has been
\* admitted, with the score 0.
C3_Witness ==
  /\ last.op = "submit" /\ last.outcome = "admitted"
  /\ last.form = BadForm
  /\ salaries[1].id = last.id /\ salaries[1].trustScore = 0

\* the admitted records younger than an hour at time t (an admitted record's
\* id is the reading of the clock at its admission)
YoungAdmitted(sals, t) == {i \in Admitted(sals) : t - sals[i].id < HourMs}

\* C4: no more than 5 admitted submissions lie in any window of 3600 s that
\* ends at an admission, and a submission attempted while 5 admitted ones
\* are younger than 3600 s is blocked and adds no record.
C4_AtMostFivePerHour ==
  /\ [](\A i \in Admitted(salaries) :
           Cardinality({j \in Admitted(salaries) :
                          /\ salaries[j].id <= salaries[i].id
                          /\ salaries[i].id - salaries[j].id < HourMs}) <= 5)
  /\ [][(SubmitStep /\ Cardinality(YoungAdmitted(salaries, now')) >= 5)
          => /\ salaries' = salaries
             /\ last'.form.title # "" /\ parseInt(last'.form.salary).val > 0
                  => last'.outcome = "rate_hard"]_vars

\* C4 witness: a valid submission has been blocked while 5 admitted ones
\* younger than an hour are in the corpus.
C4_Witness ==
  /\ last.op = "submit" /\ last.outcome = "rate_hard"
  /\ Cardinality(YoungAdmitted(salaries, now)) = 5

\* C5: a hard-blocked submission leaves the corpus and the submission window
\* as they were and calls no anomaly scoring.
C5_BlockedChangesNothing ==
  [][(SubmitStep /\ last'.outcome = "rate_hard")
       => /\ salaries' = salaries
          /\ submissions' = submissions
          /\ validationResult' = validationResult
          /\ \A i \in 1..Len(last'.calls) : last'.calls[i] = "checkRateLimit"]_vars

\* C5 witness: a submission has been hard-blocked by a window of 5 timestamps
\* of different ages, the clock having run between them.
C5_Witness ==
  /\ last.op = "submit" /\ last.outcome = "rate_hard"
  /\ Len(submissions) = 5
  /\ submissions[5] - submissions[1] >= TickMs
  /\ rateError # None

\* C6 (the claim as stated): the window never holds a timestamp whose record
\* is not in the corpus, and every admitted record younger than an hour has
\* its timestamp in the window.
C6_TimestampOnlyAfterAppend ==
  /\ \A i \in 1..Len(submissions) : HasRecord(salaries, submissions[i])
  /\ \A i \in YoungAdmitted(salaries, now) :
        \E j \in 1..Len(submissions) : submissions[j] = salaries[i].id

\* C7: a submission with an empty title, company or salary, or with a salary
\* that does not parse to an integer above 0, changes nothing: corpus,
\* window, rate-limit error, comparison and validation result stay.
C7_InvalidSubmitNoEffect ==
  [][(SubmitStep /\ (\/ last'.form.title = ""
                     \/ last'.form.company = ""
                     \/ last'.form.salary = <<>>
                     \/ parseInt(last'.form.salary).nan
                     \/ parseInt(last'.form.salary).val <= 0))
       => UNCHANGED <<salaries, submissions, rateError, comparison, validationResult,
                      submitted>>]_vars

\* C7 witness: after an admission, a form whose salary text is no number has
\* been submitted and returned as invalid.
C7_Witness ==
  /\ last.op = "submit" /\ last.outcome = "invalid"
  /\ parseInt(last.form.salary).nan /\ last.form.salary # <<>>
  /\ Admitted(salaries) # {}

\* C8: a flagCount grows only in a step that finds the record auto_approved,
\* and a flag aimed at a needs_review, flagged or rejected record is refused
\* and leaves the record as it was.
C8_FlagOnlyWhenApproved ==
  [][\A k \in 1..Len(salaries) :
        LET a == FromEnd(salaries, k)
            b == FromEnd(salaries', k)
        IN  /\ b.flagCount > a.flagCount => a.status = "auto_approved"
            /\ (FlagStep /\ a.id = last'.id
                  /\ a.status \in {"needs_review", "flagged", "rejected"})
                 => (b = a /\ last'.outcome = "refused")]_vars

\* C8 witness: a flag aimed at a listed needs_review record has been refused.
C8_Witness ==
  /\ last.op = "flag" /\ last.outcome = "refused"
  /\ HasRecord(salaries, last.id)
  /\ salaries[RecordOf(salaries, last.id)].status = "needs_review"
  /\ salaries[RecordOf(salaries, last.id)].flagCount = 0

\* what the claim calls permitted: approve or reject on a flagged or
\* needs_review record, reject on an auto_approved record with a flag
PermittedAction(sals, id, action) ==
  \E i \in 1..Len(sals) :
     /\ sals[i].id = id
     /\ \/ sals[i].status \in {"flagged", "needs_review"}
        \/ sals[i].status = "auto_approved" /\ sals[i].flagCount >= 1 /\ action = "reject"

\* C9 (the claim as stated): a call of handleAction that the record's status
\* does not permit, or whose id is not in the corpus, changes no record and
\* adds no entry to the action log.
C9_UnpermittedActionIgnored ==
  [][(ModeratorStep /\ ~PermittedAction(salaries, last'.id, last'.action))
       => (salaries' = salaries /\ actionLog' = actionLog)]_vars

\* C10: approve on a flagged or needs_review record sets status
\* auto_approved, verified true and trustScore max(previous, 80), and changes
\* no other field of it and no other record.
C10_ApproveEffect ==
  [][\A k \in 1..Len(salaries) :
        LET a == FromEnd(salaries, k)
        IN  (ModeratorStep /\ last'.action = "approve" /\ a.id = last'.id
               /\ a.status \in {"flagged", "needs_review"})
             => /\ Len(salaries') = Len(salaries)
                /\ FromEnd(salaries', k) =
                     [a EXCEPT !.status = "auto_approved", !.verified = TRUE,
                               !.trustScore = IF a.trustScore >= 80 THEN a.trustScore ELSE 80]
                /\ \A j \in 1..Len(salaries) :
                      j # k => FromEnd(salaries', j) = FromEnd(salaries, j)]_vars

\* C10 witness: a moderator has approved a record that was not verified, and
\* it is auto_approved and verified with trustScore 80.
C10_Witness ==
  /\ last.op = "moderate" /\ last.action = "approve"
  /\ HasRecord(salaries, last.id)
  /\ LET s == salaries[RecordOf(salaries, last.id)]
     IN  s.status = "auto_approved" /\ s.verified /\ s.trustScore = 80

\* C11: the record that an admission puts into the corpus is auto_approved
\* exactly when its trustScore is 70 or more, needs_review exactly when it is
\* between 40 and 69, flagged exactly when it is below 40, and never rejected;
\* the result view shows the same status and score.
C11_StatusFromFinalScore ==
  [][(SubmitStep /\ last'.outcome = "admitted")
       => LET r == salaries'[1]
          IN  /\ r.id = last'.id
              /\ r.status \in {"auto_approved", "needs_review", "flagged"}
              /\ (r.status = "auto_approved" <=> r.trustScore >= 70)
              /\ (r.status = "needs_review" <=> (40 <= r.trustScore /\ r.trustScore <= 69))
              /\ (r.status = "flagged" <=> r.trustScore < 40)
              /\ validationResult' # None
              /\ validationResult'[1].status = r.status
              /\ validationResult'[1].trustScore = r.trustScore]_vars

\* C11 witness: the friction bonus has lifted a submission that detectOutliers
\* scored 35 (flagged) to exactly 40, and its record is needs_review.
C11_Witness ==
  /\ last.op = "submit" /\ last.outcome = "admitted"
  /\ last.form = LowDupForm
  /\ detectOutliers(EntryOf(LowDupForm), INITIAL_SALARIES).status = "flagged"
  /\ salaries[1].id = last.id
  /\ salaries[1].trustScore = 40 /\ salaries[1].status = "needs_review"

\* C12: the status and the trustScore of a record of the corpus change only
\* in a moderator's approve or reject of that record; a submission, admitted
\* or not, and a community flag leave them as they were, for every record.
C12_ScoreFixedAtAdmission ==
  [][\A k \in 1..Len(salaries) :
        LET a == FromEnd(salaries, k)
            b == FromEnd(salaries', k)
        IN  /\ (a.status # b.status \/ a.trustScore # b.trustScore)
                 => /\ ModeratorStep
                    /\ a.id = last'.id
                    /\ last'.action \in {"approve", "reject"}
            /\ (SubmitStep \/ FlagStep)
                 => (b.status = a.status /\ b.trustScore = a.trustScore)]_vars

\* C12 witness: after a community flag on record 1, a Technology salary of
\* 120000 has been admitted, and every seeded record has the status and the
\* trustScore it started with.
C12_Witness ==
  /\ last.op = "submit" /\ last.outcome = "admitted" /\ last.form = BadForm
  /\ Len(salaries) = Len(INITIAL_SALARIES) + 1
  /\ salaries[2].id = 1 /\ salaries[2].flagCount = 1
  /\ \A i \in 1..Len(INITIAL_SALARIES) :
        /\ salaries[i + 1].status = INITIAL_SALARIES[i].status
        /\ salaries[i + 1].trustScore = INITIAL_SALARIES[i].trustScore

\* C13: a community flag on a listed auto_approved record, from a row that
\* has not flagged yet, adds exactly 1 to that record's flagCount and changes
\* no other field of it, no other record and not the number of records.
C13_FlagEffect ==
  [][\A k \in 1..Len(salaries) :
        LET a == FromEnd(salaries, k)
        IN  (FlagStep /\ a.id = last'.id /\ a.status = "auto_approved"
               /\ a.id \notin rowFlagged)
             => /\ last'.outcome = "flagged"
                /\ Len(salaries') = Len(salaries)
                /\ FromEnd(salaries', k) = [a EXCEPT !.flagCount = a.flagCount + 1]
                /\ \A j \in 1..Len(salaries) :
                      j # k => FromEnd(salaries', j) = FromEnd(salaries, j)]_vars

\* C13 witness: a visitor has flagged a record admitted in this session; it
\* has flagCount 1 and is auto_approved, unverified, with its trustScore 100.
C13_Witness ==
  /\ last.op = "flag" /\ last.outcome = "flagged"
  /\ last.id \notin SeedIds
  /\ HasRecord(salaries, last.id)
  /\ LET s == salaries[RecordOf(salaries, last.id)]
     IN  /\ s.flagCount = 1 /\ s.status = "auto_approved"
         /\ ~s.verified /\ s.trustScore = 100

\* C14: every moderator action puts one entry (record id, action, time) at
\* the head of the action log and keeps the earlier entries behind it in
\* their order, all of them while the log held fewer than 20 and the 19
\* newest when it held 20; no other step adds an entry; the log never holds
\* more than 20 entries.
C14_AuditLogBounded ==
  /\ [](Len(actionLog) <= 20)
  /\ [][IF ModeratorStep
         THEN /\ actionLog'[1] = [id |-> last'.id, action |-> last'.action,
                                  time |-> TimeString(now)]
              /\ Len(actionLog') = Min(Len(actionLog) + 1, 20)
              /\ \A i \in 2..Len(actionLog') : actionLog'[i] = actionLog[i - 1]
         ELSE Len(actionLog') <= Len(actionLog)]_vars

\* C14 witness: the moderator has acted 22 times in one session; the log
\* holds 20 entries, the entries of the first two actions (records 21 and 22)
\* are gone and the entry of the third (record 23) is the oldest one.
C14_Witness ==
  /\ last.op = "moderate" /\ used.actions = 22
  /\ Len(actionLog) = 20
  /\ actionLog[1].id = last.id
  /\ actionLog[20].id = 23
  /\ \A i \in 1..20 : actionLog[i].id \notin {21, 22}

\* C15: every step keeps every record of the corpus, by its id and in its
\* place; an admitted submission adds exactly one record, with a new id,
\* flagCount 0 and verified false; a submission that is not admitted, a
\* community flag, an approve and a reject leave the number of records as it
\* was.
C15_NoRecordRemoved ==
  [][/\ Len(salaries') >= Len(salaries)
     /\ \A k \in 1..Len(salaries) : FromEnd(salaries', k).id = FromEnd(salaries, k).id
     /\ IF SubmitStep /\ last'.outcome = "admitted"
        THEN /\ Len(salaries') = Len(salaries) + 1
             /\ ~HasRecord(salaries, salaries'[1].id)
             /\ salaries'[1].flagCount = 0
             /\ ~salaries'[1].verified
        ELSE Len(salaries') = Len(salaries)]_vars

\* C15 witness: a moderator has rejected a record; it is still in the corpus,
\* rejected, next to a record admitted in this session.
C15_Witness ==
  /\ last.op = "moderate" /\ last.action = "reject"
  /\ HasRecord(salaries, last.id)
  /\ salaries[RecordOf(salaries, last.id)].status = "rejected"
  /\ Len(salaries) = Len(INITIAL_SALARIES) + 1
  /\ Admitted(salaries) # {}

\* the timestamps of the window younger than 3600 s at time t
YoungStamps(subs, t) == {i \in 1..Len(subs) : t - subs[i] < 3600000}

\* C16: for a submission that passes validation, with count the number of
\* recorded timestamps younger than 3600 s: count >= 5 gives blocked with
\* reason rate_hard and no record; 3 <= count < 5 gives reason rate_warn and
\* count < 3 no reason, and in both the submission is admitted by the same
\* calls, adds one record, records its timestamp and sets no rate error.
C16_RateLimitTiers ==
  [][(SubmitStep /\ last'.outcome # "invalid")
       => LET count == Cardinality(YoungStamps(submissions, now'))
          IN  /\ count >= 5
                   => /\ last'.reason = "rate_hard" /\ last'.outcome = "rate_hard"
                      /\ rateError' # None
                      /\ salaries' = salaries
              /\ (3 <= count /\ count < 5)
                   => (last'.reason = "rate_warn" /\ last'.outcome = "admitted")
              /\ count < 3
                   => (last'.reason = "null" /\ last'.outcome = "admitted")
              /\ last'.outcome = "admitted"
                   => /\ last'.calls = <<"checkRateLimit", "detectOutliers",
                                         "recordSubmission", "setSalaries">>
                      /\ Len(salaries') = Len(salaries) + 1
                      /\ salaries'[1].id = now'
                      /\ submissions'[Len(submissions')] = now'
                      /\ Len(submissions') = count + 1
                      /\ rateError' = rateError
                      /\ submitted']_vars

\* C16 witness: a submission that found 4 timestamps younger than an hour,
\* not all of one age, has been admitted with the reason rate_warn.
C16_Witness ==
  /\ last.op = "submit" /\ last.outcome = "admitted" /\ last.reason = "rate_warn"
  /\ Len(submissions) = 5
  /\ submissions[5] - submissions[1] >= TickMs
  /\ salaries[1].id = last.id
  /\ rateError = None

\* C17: under a clock that keeps advancing, a hard block leads to a time at
\* which fewer than 5 recorded timestamps are younger than 3600 s, and a valid
\* submission made at such a time is not blocked and adds its record.
C17_EventuallyPermitted ==
  /\ (last.outcome = "rate_hard") ~> (Cardinality(YoungStamps(submissions, now)) < 5)
  /\ [][(SubmitStep /\ Cardinality(YoungStamps(submissions, now')) < 5)
          => /\ last'.outcome = "admitted"
             /\ Len(salaries') = Len(salaries) + 1
             /\ salaries'[1].id = now']_vars

\* C17 witness: the device was blocked with 5 admitted submissions, and a
\* later submission of it has been admitted as the sixth.
C17_Witness ==
  /\ rateError # None
  /\ last.op = "submit" /\ last.outcome = "admitted"
  /\ Cardinality(Admitted(salaries)) = 6

\* the claim's "equal ignoring case"
SameIgnoringCase(a, b) == toLowerCase(a) = toLowerCase(b)

\* C18 (the claim as stated): an admitted submission whose title and company
\* equal, ignoring case, and whose salary equals those of a record of the
\* corpus is stored with a duplicate flag and a trustScore of at most 50,
\* whatever its other fields and its optional fields.
C18_DuplicateAtMostFifty ==
  [][(/\ SubmitStep /\ last'.outcome = "admitted"
      /\ \E i \in 1..Len(salaries) :
            /\ SameIgnoringCase(salaries[i].title, last'.form.title)
            /\ SameIgnoringCase(salaries[i].company, last'.form.company)
            /\ salaries[i].salary = parseInt(last'.form.salary).val)
       => /\ \E j \in 1..Len(salaries'[1].flags) : salaries'[1].flags[j].type = "duplicate"
          /\ salaries'[1].trustScore <= 50
          /\ validationResult'[1].trustScore <= 50]_vars

\* C19 (the claim as stated): the comparison shown with an admission is the
\* mean, percentage delta, percentile and count over exactly the records of
\* the corpus, as it was before the admission, that have the candidate's
\* industry and are not rejected; the admission changes none of them.
C19_ComparisonExcludesRejected ==
  [][(SubmitStep /\ last'.outcome = "admitted")
       => /\ comparison' =
               Some(ComparisonOver(parseInt(last'.form.salary).val,
                       SelectSeq(salaries,
                                 LAMBDA s : /\ s.industry = last'.form.industry
                                            /\ s.status # "rejected")))
          /\ \A k \in 1..Len(salaries) : FromEnd(salaries', k) = FromEnd(salaries, k)]_vars

\* C20 (the claim as stated): no record whose status is flagged or
\* needs_review is among the rows of the Home recent list, the rows of the
\* Explorer or the records of the Compare baseline.
C20_UnreviewedNotListed ==
  \A i \in 1..Len(salaries) :
     salaries[i].status \in {"flagged", "needs_review"}
       => /\ \A j \in 1..Len(HomeRows(salaries)) : HomeRows(salaries)[j].id # salaries[i].id
          /\ \A j \in 1..Len(ExploreRows(salaries)) : ExploreRows(salaries)[j].id # salaries[i].id
          /\ \A j \in 1..Len(CompareRows(salaries)) : CompareRows(salaries)[j].id # salaries[i].id

\* C21: the bonus depends only on how many of salaryType, contractType,
\* recentRaise and companySize are filled in: none or one adds nothing, two add
\* 5, three or four add 15, and the sum is cut at 100.
C21_FrictionBonusByCount ==
  pc = "scored" =>
    LET form == pending[1].form
        n    == Cardinality({f \in {"salaryType", "contractType", "recentRaise",
                                     "companySize"} : form[f] # ""})
        add  == IF n <= 1 THEN 0 ELSE IF n = 2 THEN 5 ELSE 15
        sum  == pending[1].analysis.trustScore + add
    IN  validationResult[1].trustScore = IF sum > 100 THEN 100 ELSE sum

\* C21 witness: three optional fields filled in on a form that detectOutliers
\* scored 95, which the bonus brings to 100 and no further.
C21_Witness ==
  /\ pc = "scored"
  /\ optionalFieldsCompleted(pending[1].form) = 3
  /\ pending[1].analysis.trustScore = 95
  /\ validationResult[1].trustScore = 100

\* the salary typed into the form under scoring, and the seeded records of its
\* industry
ScoredSalary == parseInt(pending[1].form.salary).val
ScoredGroup == SelectSeq(salaries, LAMBDA s : s.industry = pending[1].form.industry)

FlagsOfType(flags, type) == SelectSeq(flags, LAMBDA f : f.type = type)

\* what the flags of an analysis and the round-number signal take off 100
PenaltyOfType(type) ==
  CASE type = "extreme_outlier" -> 40
    [] type = "outlier" -> 20
    [] type = "low_for_exp" -> 15
    [] type = "high_for_exp" -> 30
    [] type = "company_mismatch" -> 25
    [] type = "duplicate" -> 50

RECURSIVE SumPenalties(_)
SumPenalties(flags) ==
  IF flags = <<>> THEN 0 ELSE PenaltyOfType(Head(flags).type) + SumPenalties(Tail(flags))

ScoreAccountedFor(analysis, sal) ==
  LET left == 100 - SumPenalties(analysis.flags)
                  - (IF sal >= 10000 /\ sal % 10000 = 0 /\ sal > 50000 THEN 5 ELSE 0)
  IN  analysis.trustScore = IF left < 0 THEN 0 ELSE left

\* C22: with fewer than 3 records of the submission's industry in the corpus,
\* detectOutliers raises neither extreme_outlier nor outlier and takes no
\* z-score penalty off the score, whatever the salary.
C22_NoZScoreBelowThree ==
  (pc # "form" /\ Len(ScoredGroup) < 3) =>
    /\ FlagsOfType(pending[1].analysis.flags, "extreme_outlier") = <<>>
    /\ FlagsOfType(pending[1].analysis.flags, "outlier") = <<>>
    /\ ScoreAccountedFor(pending[1].analysis, ScoredSalary)

\* C22 witness: 500000 has been scored in an industry with two seeded records
\* (35000 and 22000), far from both.
C22_Witness ==
  /\ pc = "detected"
  /\ Len(ScoredGroup) = 2
  /\ ScoredSalary = 500000
  /\ \A i \in 1..2 : ScoredGroup[i].salary < 50000

\* z > a/b for the salary sal against the salaries of group, where z is
\* |sal - mean| over the population standard deviation (over 1 where that
\* deviation is 0).  In units of u, with S the sum and Q the sum of squares of
\* the n salaries: mean = S/n, variance = (n*Q - S*S)/(n*n).
SalaryUnit(sal, group) ==
  IF sal % 1000 = 0 /\ \A i \in 1..Len(group) : group[i].salary % 1000 = 0 THEN 1000 ELSE 1

RECURSIVE SumOver(_, _, _)
SumOver(group, u, power) ==
  IF group = <<>> THEN 0
  ELSE (IF power = 2 THEN (Head(group).salary \div u) * (Head(group).salary \div u)
        ELSE Head(group).salary \div u) + SumOver(Tail(group), u, power)

ZAbove(sal, group, a, b) ==
  LET n == Len(group)
      u == SalaryUnit(sal, group)
      S == SumOver(group, u, 1)
      Q == SumOver(group, u, 2)
      d == IF n * (sal \div u) >= S THEN n * (sal \div u) - S ELSE S - n * (sal \div u)
      v == n * Q - S * S
  IN  IF v = 0 THEN d * u * b > a * n
      ELSE d * d * b * b > a * a * v

\* C28: with at least 3 records of the submission's industry in the corpus, a
\* z above 3.0 raises one extreme_outlier flag of severity high and no outlier
\* flag, takes 40 off and leaves a detector score of 60 at most; a z above 2.5
\* and up to 3.0 raises one outlier flag of severity medium and no
\* extreme_outlier flag, and takes 20 off; a z up to 2.5 raises neither.
C28_ZScoreThresholds ==
  (pc # "form" /\ Len(ScoredGroup) >= 3) =>
    LET analysis == pending[1].analysis
        extreme  == FlagsOfType(analysis.flags, "extreme_outlier")
        outlier  == FlagsOfType(analysis.flags, "outlier")
        above30  == ZAbove(ScoredSalary, ScoredGroup, 3, 1)
        above25  == ZAbove(ScoredSalary, ScoredGroup, 5, 2)
    IN  /\ above30 => /\ extreme = <<[type |-> "extreme_outlier", severity |-> "high"]>>
                      /\ outlier = <<>>
                      /\ analysis.trustScore <= 60
        /\ (above25 /\ ~above30) =>
                      /\ outlier = <<[type |-> "outlier", severity |-> "medium"]>>
                      /\ extreme = <<>>
        /\ ~above25 => (extreme = <<>> /\ outlier = <<>>)
        /\ ScoreAccountedFor(analysis, ScoredSalary)

\* C28 witness: a salary between 2.5 and 3.0 standard deviations from the mean
\* of its industry has been scored, and the outlier flag is its only flag.
C28_Witness ==
  /\ pc = "detected"
  /\ Len(ScoredGroup) >= 3
  /\ ZAbove(ScoredSalary, ScoredGroup, 5, 2)
  /\ ~ZAbove(ScoredSalary, ScoredGroup, 3, 1)
  /\ pending[1].analysis.flags = <<[type |-> "outlier", severity |-> "medium"]>>
  /\ pending[1].analysis.trustScore = 80

\* the two ends of the salary range usual for an experience band
BandOf(experience) ==
  CASE experience = "0-1 years"  -> [min |-> 5000, max |-> 25000]
    [] experience = "1-3 years"  -> [min |-> 8000, max |-> 40000]
    [] experience = "3-5 years"  -> [min |-> 12000, max |-> 60000]
    [] experience = "5-8 years"  -> [min |-> 15000, max |-> 80000]
    [] experience = "8-12 years" -> [min |-> 20000, max |-> 100000]
    [] experience = "12+ years"  -> [min |-> 25000, max |-> 150000]

\* C29: for each of the six experience bands, detectOutliers raises
\* low_for_exp (and takes 15 off) exactly when the salary is below half the
\* band's lower end, and high_for_exp (and takes 30 off) exactly when it is
\* above one and a half times the upper end, never both; for 3-5 years, 5000
\* is low, 100000 is high and 25000 is neither.
C29_ExperienceEnvelope ==
  pc # "form" =>
    LET form     == pending[1].form
        analysis == pending[1].analysis
        band     == BandOf(form.experience)
        low      == FlagsOfType(analysis.flags, "low_for_exp")
        high     == FlagsOfType(analysis.flags, "high_for_exp")
    IN  /\ low = IF 2 * ScoredSalary < band.min
                 THEN <<[type |-> "low_for_exp", severity |-> "medium"]>> ELSE <<>>
        /\ high = IF 2 * ScoredSalary > 3 * band.max
                  THEN <<[type |-> "high_for_exp", severity |-> "high"]>> ELSE <<>>
        /\ ~(low # <<>> /\ high # <<>>)
        /\ ScoreAccountedFor(analysis, ScoredSalary)
        /\ form.experience = "3-5 years" =>
             /\ ScoredSalary = 5000 => (low # <<>> /\ high = <<>>)
             /\ ScoredSalary = 100000 => (high # <<>> /\ low = <<>>)
             /\ ScoredSalary = 25000 => (low = <<>> /\ high = <<>>)

\* C29 witness: 5999, one below half the lower end of 3-5 years, has been
\* scored in an industry without records and carries the low_for_exp flag alone.
C29_Witness ==
  /\ pc = "detected"
  /\ pending[1].form.experience = "3-5 years"
  /\ ScoredSalary = 5999
  /\ pending[1].analysis.flags = <<[type |-> "low_for_exp", severity |-> "medium"]>>
  /\ pending[1].analysis.trustScore = 85

\* C27: the divisor of the z-score is never below 1: where the population
\* standard deviation of the same-industry salaries is below 1, 0 included, z
\* is |salary - mean| / 1, so the record just admitted carries extreme_outlier
\* exactly when |salary - mean| > 3 and outlier exactly when it is above 2.5
\* and up to 3.
C27_DeviationFlooredAtOne ==
  (last.op = "submit" /\ last.outcome = "admitted") =>
    LET entry == salaries[1]
        group == SelectSeq(Tail(salaries), LAMBDA s : s.industry = entry.industry)
        n == Len(group)
        S == SumOver(group, 1, 1)
        Q == SumOver(group, 1, 2)
        d == IF n * entry.salary >= S THEN n * entry.salary - S ELSE S - n * entry.salary
    IN  (n >= 3 /\ n * Q - S * S < n * n) =>
          /\ FlagsOfType(entry.flags, "extreme_outlier") # <<>>  <=>  d > 3 * n
          /\ FlagsOfType(entry.flags, "outlier") # <<>>  <=>  (2 * d > 5 * n /\ d <= 3 * n)

\* C23 (the claim as stated): a rejected record is in none of the public
\* listings and of the aggregates taken over them: the Home recent list, the
\* rows of the Explorer, the Compare baseline, the entries shown next to the
\* company field.  So a record hidden while flagged stays hidden when rejected.
C23_RejectedNotListed ==
  \A i \in 1..Len(salaries) :
     salaries[i].status = "rejected"
       => LET id == salaries[i].id
              Lists(rows) == \E j \in 1..Len(rows) : rows[j].id = id
          IN  /\ ~Lists(HomeRows(salaries))
              /\ ~Lists(ExploreRows(salaries))
              /\ ~Lists(CompareRows(salaries))
              /\ ~Lists(NearbyRows(salaries[i].company, salaries))

\* C24: every record that is not rejected has the status of its trust score:
\* auto_approved from 70, needs_review from 40 to 69, flagged below 40.
C24_StatusMatchesScore ==
  \A i \in 1..Len(salaries) :
     LET s == salaries[i]
     IN  /\ s.status = "auto_approved" => s.trustScore >= 70
         /\ s.status = "needs_review" => (s.trustScore >= 40 /\ s.trustScore <= 69)
         /\ s.status = "flagged" => s.trustScore < 40
         /\ s.status \in {"auto_approved", "needs_review", "flagged", "rejected"}

\* C24 witness: the moderator has approved seeded record 21, flagged with a
\* trust score of 22, after a submission scored 0 was admitted as flagged.
C24_Witness ==
  /\ last.op = "moderate" /\ last.action = "approve" /\ last.id = 21
  /\ salaries[RecordOf(salaries, 21)].status = "auto_approved"
  /\ \E i \in Admitted(salaries) : salaries[i].status = "flagged" /\ salaries[i].trustScore = 0

\* C30: a flagged or needs_review record is not verified, so a verified record
\* is auto_approved or rejected; and a verified record that a step rejects is
\* still verified after it.
C30_VerifiedOnlyByApproval ==
  /\ [](\A i \in 1..Len(salaries) :
           salaries[i].status \in {"flagged", "needs_review"} => ~salaries[i].verified)
  /\ [][\A k \in 1..Len(salaries) :
           (FromEnd(salaries, k).verified /\ FromEnd(salaries', k).status = "rejected")
             => FromEnd(salaries', k).verified]_vars

\* C30 witness: seeded record 24, unverified and in need of review, has been
\* approved, then flagged by a visitor and removed: it is rejected and verified.
C30_Witness ==
  /\ last.op = "moderate" /\ last.action = "reject" /\ last.id = 24
  /\ salaries[RecordOf(salaries, 24)].status = "rejected"
  /\ salaries[RecordOf(salaries, 24)].verified

\* C25 (the claim as stated): every admitted submission is scored against the
\* corpus that holds every record admitted before it, also when the view has
\* not rendered the record before it yet; and the step adds its record to the
\* corpus and keeps the records that were there.
C25_ScoredAgainstWholeCorpus ==
  [][(SubmitStep /\ last'.outcome = "admitted") =>
        LET scored == FrictionBonus(detectOutliers(EntryOf(last'.form), salaries), last'.form)
        IN  /\ Len(salaries') = Len(salaries) + 1
            /\ \A k \in 1..Len(salaries) : FromEnd(salaries', k) = FromEnd(salaries, k)
            /\ salaries'[1].flags = scored.flags
            /\ salaries'[1].trustScore = scored.trustScore
            /\ salaries'[1].status = scored.status]_vars

\* C26 (the claim as stated): the ids of the corpus are distinct from each
\* other, and a community flag or a moderator action changes one record at most.
C26_DistinctIds ==
  /\ [](\A i \in 1..Len(salaries) : \A j \in 1..Len(salaries) :
           i # j => salaries[i].id # salaries[j].id)
  /\ [][(FlagStep \/ ModeratorStep) =>
           Cardinality({k \in 1..Len(salaries) :
                          FromEnd(salaries', k) # FromEnd(salaries, k)}) <= 1]_vars

====
